---------------------------- MODULE Spec2Model ----------------------------
(***************************************************************************)
(* Model of the convolution space-to-batch pass                            *)
(* (tensorflow/compiler/xla/service/space_to_batch_converter.cc).          *)
(*                                                                         *)
(* A computation is a sequence of instructions addressed by their position *)
(* (1-based handle).  Axis numbers, operand numbers and window positions   *)
(* are 0-based as in the source and read with At/SetAt.                    *)
(***************************************************************************)
EXTENDS Integers, Sequences, FiniteSets, TLC

VARIABLES
    instrs,                     \* the computation: handle -> instruction
    root_instruction,           \* handle of the computation's root
    removed,                    \* handles removed from the computation
    convs_to_visit_,
    conv_visitor_list_,
    non_propagatable_instrs_,
    batch_to_space_map_,
    old_to_new_instrs_,
    instr_to_dim_map_,
    instr_to_dim_permute_map_,
    changed_,
    limit_on_batch_size_,
    propagation_worklist,       \* queue of <<node, parent>>
    iteration_count,
    conv_index,                 \* position of Run's loop in conv_visitor_list_
    pc,                         \* position of the pass
    clock,                      \* parity of the number of steps taken
    ghost,                      \* history kept for the properties only
    tensor                      \* operands/results of the value-level operators

graphVars == <<instrs, root_instruction, removed>>
tableVars == <<convs_to_visit_, conv_visitor_list_, non_propagatable_instrs_,
               batch_to_space_map_, old_to_new_instrs_, instr_to_dim_map_,
               instr_to_dim_permute_map_>>
ctrlVars  == <<changed_, limit_on_batch_size_, propagation_worklist,
               iteration_count, conv_index, pc, clock>>
vars == <<graphVars, tableVars, ctrlVars, ghost, tensor>>

---------------------------------------------------------------------------
(* Bounds of the model *)

MaxSpace == 6
MaxKernel == 3
MaxStride == 2
MaxPad == 1
MaxDilation == 2
MaxWindow == 2

(* Program constants *)
kNewBatchSize == 8
kReduceWindowSearchDepth == 10

---------------------------------------------------------------------------
(* Arithmetic and sequence helpers *)

At(s, i) == s[i + 1]
SetAt(s, i, v) == [s EXCEPT ![i + 1] = v]
Max(a, b) == IF a >= b THEN a ELSE b
Abs(a) == IF a >= 0 THEN a ELSE 0 - a

\* C++ integer division and remainder (truncation toward zero), b > 0.
CDiv(a, b) == IF a >= 0 THEN a \div b ELSE 0 - ((0 - a) \div b)
CMod(a, b) == a - b * CDiv(a, b)

\* tensorflow CeilOfRatio for a positive denominator.
CeilOfRatio(a, b) == IF a >= 0 THEN (a + b - 1) \div b ELSE 0 - ((0 - a) \div b)

Range(s) == {s[i] : i \in DOMAIN s}
c_linear_search(s, v) == v \in Range(s)

RECURSIVE ProductFrom(_, _)
ProductFrom(s, i) == IF i > Len(s) THEN 1 ELSE s[i] * ProductFrom(s, i + 1)

\* The number of elements of a shape.
Product(s) == ProductFrom(s, 1)

\* Functions with a growing domain (the hash maps of the visitor).
EmptyMap == <<>>
MapPut(m, k, v) == [x \in (DOMAIN m) \cup {k} |-> IF x = k THEN v ELSE m[x]]

---------------------------------------------------------------------------
(* Instructions *)

WindowDimension(size, stride, padding_low, padding_high, wdil, bdil) ==
    [size |-> size, stride |-> stride, padding_low |-> padding_low,
     padding_high |-> padding_high, window_dilation |-> wdil,
     base_dilation |-> bdil]

TrivialWindowDimension == WindowDimension(1, 1, 0, 0, 1, 1)

ConvolutionDimensionNumbers(ib, if, isp, kif, kof, ksp, ob, of, osp) ==
    [input_batch_dimension |-> ib, input_feature_dimension |-> if,
     input_spatial_dimensions |-> isp,
     kernel_input_feature_dimension |-> kif,
     kernel_output_feature_dimension |-> kof,
     kernel_spatial_dimensions |-> ksp,
     output_batch_dimension |-> ob, output_feature_dimension |-> of,
     output_spatial_dimensions |-> osp]

NoDimensionNumbers ==
    ConvolutionDimensionNumbers(0, 0, <<>>, 0, 0, <<>>, 0, 0, <<>>)

HloInstruction(opcode, operands, shape, dimensions, window, dnums, bgc) ==
    [opcode |-> opcode, operands |-> operands, shape |-> shape,
     dimensions |-> dimensions, window |-> window,
     convolution_dimension_numbers |-> dnums, batch_group_count |-> bgc]

Parameter(shape) ==
    HloInstruction("parameter", <<>>, shape, <<>>, <<>>, NoDimensionNumbers, 1)

\* window_util::DilatedBound and StridedBound, used by shape inference.
DilatedBound(bound, dilation) ==
    IF bound = 0 THEN 0 ELSE (bound - 1) * dilation + 1

StridedBound(bound, window_size, stride) ==
    IF bound = 0 \/ window_size > bound THEN 0
    ELSE CDiv(bound - window_size, stride) + 1

\* Output extent of one windowed axis (ShapeInference::InferWindowOutputShape).
WindowOutputSize(in, w) ==
    StridedBound(w.padding_low + DilatedBound(in, w.base_dilation)
                     + w.padding_high,
                 DilatedBound(w.size, w.window_dilation), w.stride)

\* ShapeInference::InferConvolveShape: the output shape of a convolution.
InferConvolveShape(lhs, rhs, window, dn, bgc) ==
    [d \in 1..Len(lhs) |->
        IF d - 1 = dn.output_batch_dimension
        THEN CDiv(At(lhs, dn.input_batch_dimension), bgc)
        ELSE IF d - 1 = dn.output_feature_dimension
        THEN At(rhs, dn.kernel_output_feature_dimension)
        ELSE LET j == CHOOSE k \in DOMAIN dn.output_spatial_dimensions :
                          dn.output_spatial_dimensions[k] = d - 1
             IN WindowOutputSize(At(lhs, dn.input_spatial_dimensions[j]),
                                 window[j])]

---------------------------------------------------------------------------
(* ConvDetails and the legality check *)

get_chosen_spatial_dim(convolution) ==
    Len(convolution.convolution_dimension_numbers.input_spatial_dimensions) - 1

\* A split that borrows nothing from the next one.
HaloSizeNone(kernel_spatial_dim_size, stride, base_dilation_factor) == 0

\* A halo size that is not clamped at zero.
HaloSizeUnclamped(kernel_spatial_dim_size, stride, base_dilation_factor) ==
    kernel_spatial_dim_size - stride - (base_dilation_factor - 1)

\* halo_size of GetConvolutionDetails.
HaloSize(kernel_spatial_dim_size, stride, base_dilation_factor) ==
    Max(kernel_spatial_dim_size - stride - (base_dilation_factor - 1), 0)

GetConvolutionDetails(I, convolution, dim_numbers) ==
    LET activations == I[At(convolution.operands, 0)]
        kernel == I[At(convolution.operands, 1)]
        chosen == get_chosen_spatial_dim(convolution)
        w == At(convolution.window, chosen)
        kernel_spatial_dim_size ==
            At(kernel.shape, At(dim_numbers.kernel_spatial_dimensions, chosen))
        spatial_dimension_to_split ==
            At(dim_numbers.input_spatial_dimensions, chosen)
        input_dim_size == At(activations.shape, spatial_dimension_to_split)
        inherent_low_padding == w.padding_low
        inherent_high_padding == w.padding_high
        stride == w.stride
        base_dilation_factor == w.base_dilation
        spatial_size ==
            input_dim_size
            + (IF base_dilation_factor > 1 THEN 0 ELSE inherent_low_padding)
            + inherent_high_padding
        halo_size ==
            HaloSize(kernel_spatial_dim_size, stride, base_dilation_factor)
        high_padding_for_conv ==
            IF base_dilation_factor = 1 THEN 0
            ELSE IF inherent_low_padding = 0 THEN base_dilation_factor - 1
            ELSE 0
        low_padding_for_conv ==
            IF base_dilation_factor = 1 THEN 0 ELSE inherent_low_padding
    IN [spatial_dimension_to_split |-> spatial_dimension_to_split,
        inherent_low_padding |-> inherent_low_padding,
        inherent_high_padding |-> inherent_high_padding,
        stride |-> stride,
        spatial_size |-> spatial_size,
        base_dilation_factor |-> base_dilation_factor,
        halo_size |-> halo_size,
        high_padding_for_conv |-> high_padding_for_conv,
        low_padding_for_conv |-> low_padding_for_conv,
        kernel_spatial_dim_size |-> kernel_spatial_dim_size,
        input_dim_size |-> input_dim_size]

\* A legality check that never compares the halo with the split size
\* (the property of the legality check does not hold of it).
ConvDetailsSuitableWithoutHalo(I, convolution, limit, c) ==
    LET old_batch_size ==
            At(I[At(convolution.operands, 0)].shape,
               convolution.convolution_dimension_numbers.input_batch_dimension)
    IN /\ c.base_dilation_factor # 1 =>
              /\ c.stride = 1
              /\ \/ c.inherent_low_padding = 0 /\ c.kernel_spatial_dim_size = 1
                 \/ /\ c.inherent_low_padding # 0
                    /\ c.kernel_spatial_dim_size = c.base_dilation_factor + 1
                    /\ c.inherent_low_padding = c.base_dilation_factor - 1
       /\ old_batch_size <= limit
       /\ CMod(kNewBatchSize, old_batch_size) = 0

\* The checks of IsConvSuitableForSpaceToBatch that follow GetConvolutionDetails.
ConvDetailsSuitable(I, convolution, limit, c) ==
    LET dim_numbers == convolution.convolution_dimension_numbers
        low_pad ==
            At(convolution.window, get_chosen_spatial_dim(convolution)).padding_low
        old_batch_size ==
            At(I[At(convolution.operands, 0)].shape,
               dim_numbers.input_batch_dimension)
        num_splits == CDiv(kNewBatchSize, old_batch_size)
    IN IF c.base_dilation_factor # 1 /\ c.stride # 1 THEN FALSE
       ELSE IF c.base_dilation_factor # 1 /\ low_pad = 0
               /\ c.kernel_spatial_dim_size # 1 THEN FALSE
       ELSE IF c.base_dilation_factor # 1 /\ low_pad # 0
               /\ (c.kernel_spatial_dim_size # c.base_dilation_factor + 1
                   \/ low_pad # c.base_dilation_factor - 1) THEN FALSE
       ELSE IF old_batch_size > limit THEN FALSE
       ELSE IF CMod(kNewBatchSize, old_batch_size) # 0 THEN FALSE
       ELSE IF c.halo_size > CeilOfRatio(c.spatial_size, num_splits) THEN FALSE
       ELSE TRUE

IsConvSuitableForSpaceToBatch(I, convolution, limit) ==
    LET dim_numbers == convolution.convolution_dimension_numbers
    IN IF Len(dim_numbers.input_spatial_dimensions) < 1 THEN FALSE
       ELSE IF convolution.batch_group_count # 1 THEN FALSE
       ELSE IF At(convolution.window,
                  get_chosen_spatial_dim(convolution)).window_dilation # 1
            THEN FALSE
       ELSE ConvDetailsSuitable(I, convolution, limit,
                GetConvolutionDetails(I, convolution, dim_numbers))

---------------------------------------------------------------------------
(* Users of an instruction, in the order of the user list *)

Handles(I) == [i \in 1..Len(I) |-> i]

Users(I, rm, n) ==
    SelectSeq(Handles(I), LAMBDA u : u \notin rm /\ n \in Range(I[u].operands))

user_count(I, rm, n) == Len(Users(I, rm, n))

\* Depth-first search for a reduce-window below instr (0 stands for nullptr).
RECURSIVE FeedReduceWindowUsers(_, _, _, _)
FeedReduceWindowUsers(I, rm, us, depth) ==
    IF us = <<>> THEN 0
    ELSE LET user == Head(us)
         IN IF I[user].opcode = "reduce-window" THEN user
            ELSE IF I[user].opcode \in {"convolution", "pad", "transpose"}
            THEN FeedReduceWindowUsers(I, rm, Tail(us), depth)
            ELSE LET ret == IF depth - 1 = 0 THEN 0
                            ELSE FeedReduceWindowUsers(
                                     I, rm, Users(I, rm, user), depth - 1)
                 IN IF ret # 0 THEN ret
                    ELSE FeedReduceWindowUsers(I, rm, Tail(us), depth)

DoesConvolutionFeedReduceWindow(I, rm, instr, depth) ==
    IF depth = 0 THEN 0
    ELSE FeedReduceWindowUsers(I, rm, Users(I, rm, instr), depth)

---------------------------------------------------------------------------
(* BringSpaceNextToBatch *)

\* Position (0-based) of axis i among the spatial axes, or -1.
SpatialIndexOf(spatial_dims, i) ==
    IF i \in Range(spatial_dims)
    THEN (CHOOSE j \in DOMAIN spatial_dims :
              spatial_dims[j] = i
              /\ \A k \in DOMAIN spatial_dims : spatial_dims[k] = i => j <= k) - 1
    ELSE -1

RECURSIVE BringSpaceLoop(_, _, _, _, _, _)
BringSpaceLoop(i, rank, dim_numbers, space, batch, st) ==
    IF i >= rank THEN st
    ELSE IF i = batch
    THEN BringSpaceLoop(i + 1, rank, dim_numbers, space, batch, st)
    ELSE LET s1 == IF i = space
                   THEN [st EXCEPT
                            !.transpose_dims = Append(@, batch),
                            !.new_batch_dim = st.pushed_counter,
                            !.pushed_counter = st.pushed_counter + 1,
                            !.new_spatial_dim = st.pushed_counter + 1]
                   ELSE st
             j == SpatialIndexOf(dim_numbers.input_spatial_dimensions, i)
             dn1 == IF i = dim_numbers.input_feature_dimension
                    THEN [s1.new_dim_numbers EXCEPT
                             !.input_feature_dimension = s1.pushed_counter]
                    ELSE IF j >= 0
                    THEN [s1.new_dim_numbers EXCEPT
                             !.input_spatial_dimensions =
                                 SetAt(@, j, s1.pushed_counter)]
                    ELSE s1.new_dim_numbers
             s2 == [s1 EXCEPT !.new_dim_numbers = dn1,
                              !.transpose_dims = Append(@, i),
                              !.pushed_counter = s1.pushed_counter + 1]
         IN BringSpaceLoop(i + 1, rank, dim_numbers, space, batch, s2)

\* A transpose that leaves the axes where they are (the shape property of
\* BatchToSpace does not hold of it).
TransposeShapeKept(shape, dims) == shape

\* Shape of a transpose: output axis k has the extent of input axis dims[k].
TransposeShape(shape, dims) == [k \in 1..Len(dims) |-> At(shape, dims[k])]

BringSpaceNextToBatch(shape, dim_numbers, space, batch) ==
    IF space # batch + 1
    THEN LET st == BringSpaceLoop(0, Len(shape), dim_numbers, space, batch,
                       [pushed_counter |-> 0, transpose_dims |-> <<>>,
                        new_batch_dim |-> -1, new_spatial_dim |-> -1,
                        new_dim_numbers |-> dim_numbers])
         IN [shape |-> TransposeShape(shape, st.transpose_dims),
             dim_numbers |-> [st.new_dim_numbers EXCEPT
                                 !.input_batch_dimension = st.new_batch_dim],
             spatial_dimension_to_split |-> st.new_spatial_dim,
             activations_batch_dim |-> st.new_batch_dim]
    ELSE [shape |-> shape,
          dim_numbers |-> [dim_numbers EXCEPT !.input_batch_dimension = batch],
          spatial_dimension_to_split |-> space,
          activations_batch_dim |-> batch]

---------------------------------------------------------------------------
(* HaloDuplicateWithSlice on shapes: the extent of the space axis of the   *)
(* result, and whether every slice it takes is within bounds.              *)

HaloDuplicateShape(shape, space_dim, batch_dim, low_padding, halo_size) ==
    LET spatial_split_size == At(shape, space_dim)
        batch_size == At(shape, batch_dim)
        check_ok == Abs(halo_size - low_padding) <= spatial_split_size
        has_first == low_padding > 0
        first_ok == has_first =>
                        (spatial_split_size - low_padding >= 0
                         /\ batch_size - 1 >= 0)
        has_halo == halo_size - low_padding > 0
        halo_ok == has_halo =>
                       (batch_size >= 1
                        /\ halo_size - low_padding <= spatial_split_size)
        cut == halo_size = 0 /\ low_padding # 0
        cut_size == IF ~cut THEN spatial_split_size
                    ELSE IF low_padding > 0
                    THEN spatial_split_size - low_padding
                    ELSE spatial_split_size - (0 - low_padding)
        cut_ok == cut => cut_size >= 0
        size == (IF has_first THEN low_padding ELSE 0) + cut_size
                + (IF has_halo THEN halo_size - low_padding ELSE 0)
    IN [ok |-> check_ok /\ first_ok /\ halo_ok /\ cut_ok,
        shape |-> SetAt(shape, space_dim, size)]

---------------------------------------------------------------------------
(* The mutable state a handler threads through its calls: the computation  *)
(* and the side tables.  ok becomes FALSE when a CHECK or a failed graph    *)
(* primitive aborts the pass; what was mutated before stays mutated.       *)

St ==
    [I |-> instrs, root |-> root_instruction, rm |-> removed,
     convs |-> convs_to_visit_, nonprop |-> non_propagatable_instrs_,
     b2s |-> batch_to_space_map_, o2n |-> old_to_new_instrs_,
     dimmap |-> instr_to_dim_map_, permmap |-> instr_to_dim_permute_map_,
     ok |-> TRUE]

Commit(S) ==
    /\ instrs' = S.I
    /\ root_instruction' = S.root
    /\ removed' = S.rm
    /\ convs_to_visit_' = S.convs
    /\ non_propagatable_instrs_' = S.nonprop
    /\ batch_to_space_map_' = S.b2s
    /\ old_to_new_instrs_' = S.o2n
    /\ instr_to_dim_map_' = S.dimmap
    /\ instr_to_dim_permute_map_' = S.permmap

\* A failure that takes back what the failing step had done so far (the
\* pass then would leave a graph without the partial rewrite).
FailRolledBack(S) == [St EXCEPT !.ok = FALSE]

\* A failed CHECK, TF_CHECK_OK or ValueOrDie: nothing is undone.
Fail(S) == [S EXCEPT !.ok = FALSE]

\* computation->AddInstruction: the new handle is NewHandle(S).
NewHandle(S) == Len(S.I) + 1
AddInstruction(S, instr) == [S EXCEPT !.I = Append(@, instr)]

\* A rewritten value is kept as one instruction: the last instruction of the
\* chain the source builds, with the chain's inputs as its operands.
Derived(opcode, operands, shape) ==
    HloInstruction(opcode, operands, shape, <<>>, <<>>, NoDimensionNumbers, 1)

ReplaceOperands(instr, old, new) ==
    [instr EXCEPT !.operands =
        [i \in DOMAIN instr.operands |->
            IF instr.operands[i] = old THEN new ELSE instr.operands[i]]]

\* HloComputation::ReplaceInstruction: every use of old becomes a use of new,
\* the root moves with it, old leaves the computation. The shapes must be
\* compatible.
ReplaceInstruction(S, old, new) ==
    IF S.I[old].shape # S.I[new].shape THEN Fail(S)
    ELSE [S EXCEPT
            !.I = [h \in DOMAIN S.I |->
                      IF h \in S.rm \/ h = old THEN S.I[h]
                      ELSE ReplaceOperands(S.I[h], old, new)],
            !.root = IF S.root = old THEN new ELSE S.root,
            !.rm = S.rm \cup {old}]

\* HloInstruction::ReplaceOperandWith on every operand slot of user that
\* holds old. The shapes must be compatible.
ReplaceOperandWith(S, user, old, new) ==
    IF S.I[old].shape # S.I[new].shape THEN Fail(S)
    ELSE [S EXCEPT !.I[user] = ReplaceOperands(S.I[user], old, new)]

---------------------------------------------------------------------------
(* SelectValidPortion and BatchToSpace on shapes *)

\* The CHECK of SelectValidPortion; the selected value keeps new_instr's shape.
SelectValidPortionOk(new_shape, old_shape, new_batch_dim, old_batch_dim) ==
    At(old_shape, old_batch_dim) > 0
    /\ CMod(At(new_shape, new_batch_dim), At(old_shape, old_batch_dim)) = 0

\* Slice [0, end) on one axis is valid when it stays inside the operand.
SliceOk(shape, dim, end) == 0 <= end /\ end <= At(shape, dim)

\* A BatchToSpace that never finds its result in batch_to_space_map_.
BatchToSpaceNotMemoized(S, old_instr) == FALSE

\* Line 1267: batch_to_space_map_.count(old_instr).
BatchToSpaceMemoized(S, old_instr) == old_instr \in DOMAIN S.b2s

BatchToSpace(S, old_instr) ==
    IF BatchToSpaceMemoized(S, old_instr)
    THEN [S |-> S, instr |-> S.b2s[old_instr]]
    ELSE
    LET S1 == IF old_instr \in DOMAIN S.dimmap THEN S
              ELSE [S EXCEPT !.dimmap = MapPut(@, old_instr, <<0, 0>>)]
        old_batch_dim == S1.dimmap[old_instr][1]
        old_space_dim == S1.dimmap[old_instr][2]
        old_shape == S1.I[old_instr].shape
        old_batch_size == At(old_shape, old_batch_dim)
    IN IF old_instr \notin DOMAIN S1.o2n THEN [S |-> Fail(S1), instr |-> 0]
       ELSE IF S1.o2n[old_instr] \notin DOMAIN S1.permmap
       THEN [S |-> Fail(S1), instr |-> 0]
       ELSE
       LET new_instr == S1.o2n[old_instr]
           permute_dims == S1.permmap[new_instr]
           new_shape == S1.I[new_instr].shape
           batch_dim == At(permute_dims, old_batch_dim)
           space_dim == At(permute_dims, old_space_dim)
           batch_size == At(new_shape, batch_dim)
           d1 == SetAt(new_shape, space_dim,
                       At(new_shape, space_dim)
                           * CDiv(batch_size, old_batch_size))
           new_dimensions == SetAt(d1, batch_dim, old_batch_size)
           reshape_ok == Product(new_dimensions) = Product(new_shape)
           end == At(old_shape, old_space_dim)
           slice_ok == SliceOk(new_dimensions, space_dim, end)
           output_slice == SetAt(new_dimensions, space_dim, end)
           output_transpose == TransposeShape(output_slice, permute_dims)
       IN IF ~reshape_ok \/ ~slice_ok THEN [S |-> Fail(S1), instr |-> 0]
          ELSE LET h == NewHandle(S1)
                   S2 == AddInstruction(S1,
                            Derived("transpose", <<new_instr>>,
                                    output_transpose))
               IN [S |-> [S2 EXCEPT !.b2s = MapPut(@, old_instr, h)],
                   instr |-> h]

---------------------------------------------------------------------------
(* PerformSpaceToBatchOnConvolution: the initial rewrite *)

\* A split that is left at its first value.
GrowToCoverNever(spatial_split_size, stride, num_splits, spatial_size) ==
    spatial_split_size

\* while (spatial_split_size * num_splits - spatial_size < 0) += stride
RECURSIVE GrowToCover(_, _, _, _)
GrowToCover(spatial_split_size, stride, num_splits, spatial_size) ==
    IF spatial_split_size * num_splits - spatial_size < 0
    THEN GrowToCover(spatial_split_size + stride, stride, num_splits,
                     spatial_size)
    ELSE spatial_split_size

\* An alignment that grows the split once instead of looping.
GrowToReduceWindowOnce(spatial_split_size, stride, red_win_stride) ==
    IF CMod(CDiv(spatial_split_size, stride), red_win_stride) # 0
    THEN spatial_split_size + stride
    ELSE spatial_split_size

\* while ((spatial_split_size / stride) % red_win_stride != 0) += stride
RECURSIVE GrowToReduceWindow(_, _, _)
GrowToReduceWindow(spatial_split_size, stride, red_win_stride) ==
    IF CMod(CDiv(spatial_split_size, stride), red_win_stride) # 0
    THEN GrowToReduceWindow(spatial_split_size + stride, stride,
                            red_win_stride)
    ELSE spatial_split_size

\* The output axis order of a rewritten convolution: the spatial axes in
\* order with the batch axis put right before the chosen one, then feature.
OutputDimMap(dim_numbers, chosen) ==
    [k \in {dim_numbers.output_batch_dimension,
            dim_numbers.output_feature_dimension}
           \cup Range(dim_numbers.output_spatial_dimensions) |->
        IF k = dim_numbers.output_feature_dimension
        THEN Len(dim_numbers.output_spatial_dimensions) + 1
        ELSE IF k \in Range(dim_numbers.output_spatial_dimensions)
        THEN LET j == SpatialIndexOf(dim_numbers.output_spatial_dimensions, k)
             IN IF j = chosen THEN j + 1 ELSE j
        ELSE chosen]

NewOutputDimNumbers(dim_numbers, chosen) ==
    [dim_numbers EXCEPT
        !.output_batch_dimension = chosen,
        !.output_spatial_dimensions =
            [j \in DOMAIN dim_numbers.output_spatial_dimensions |->
                IF j - 1 = chosen THEN j ELSE j - 1],
        !.output_feature_dimension =
            Len(dim_numbers.output_spatial_dimensions) + 1]

\* Axes that are left where they were.
TransposeDimsKept(dim_map, rank) == [p \in 1..rank |-> p - 1]

\* transpose_dims: the values of dim_map in the order of its keys.
TransposeDimsOf(dim_map, rank) == [p \in 1..rank |-> dim_map[p - 1]]

SpatialSplitSize(I, rm, conv, c, num_splits, output_spatial_dim) ==
    LET convolution == I[conv]
        output_offsets == At(convolution.shape, output_spatial_dim)
        output_offsets_per_split == CeilOfRatio(output_offsets, num_splits)
        s0 == CeilOfRatio(output_offsets_per_split, c.base_dilation_factor)
                  * c.stride
        s1 == GrowToCover(s0, c.stride, num_splits, c.spatial_size)
        reduce_window ==
            DoesConvolutionFeedReduceWindow(I, rm, conv,
                                            kReduceWindowSearchDepth)
    IN IF reduce_window # 0
       THEN GrowToReduceWindow(s1, c.stride,
                At(I[reduce_window].window, output_spatial_dim).stride)
       ELSE s1

\* A padding that materializes the low padding under base dilation too.
PadSpatialDimWithLowPadding(shape, space, c, pad_size) ==
    SetAt(shape, space,
          At(shape, space) + c.inherent_low_padding + c.inherent_high_padding
          + pad_size)

\* Lines 2071-2084: the shape of the activations once the inherent and the
\* extra padding of the split axis are materialized.
PadSpatialDim(shape, space, c, pad_size) ==
    IF pad_size # 0 \/ c.inherent_low_padding # 0
       \/ c.inherent_high_padding # 0
    THEN SetAt(shape, space,
               At(shape, space) + c.inherent_high_padding + pad_size
               + (IF c.base_dilation_factor = 1
                  THEN c.inherent_low_padding ELSE 0))
    ELSE shape

\* PerformSpaceToBatchOnConvolution from the padding of the activations
\* (line 2062) to the tables it fills (line 2195).
SplitAndConvolve(S, conv, c, bs, spatial_split_size) ==
    LET convolution == S.I[conv]
        dim_numbers0 == convolution.convolution_dimension_numbers
        chosen == get_chosen_spatial_dim(convolution)
        activations == At(convolution.operands, 0)
        old_batch_size ==
            At(S.I[activations].shape, dim_numbers0.input_batch_dimension)
        num_splits == CDiv(kNewBatchSize, old_batch_size)
        dim_numbers == bs.dim_numbers
        space == bs.spatial_dimension_to_split
        batch == bs.activations_batch_dim
        pad_size == spatial_split_size * num_splits - c.spatial_size
        padded == PadSpatialDim(bs.shape, space, c, pad_size)
        reshape_dimensions ==
            SetAt(SetAt(padded, space, spatial_split_size), batch,
                  num_splits * old_batch_size)
        reshape_ok == Product(reshape_dimensions) = Product(padded)
        halo == HaloDuplicateShape(reshape_dimensions, space, batch, 0,
                                   c.halo_size)
        new_dim_numbers == NewOutputDimNumbers(dim_numbers, chosen)
        transpose_dims ==
            TransposeDimsOf(OutputDimMap(dim_numbers, chosen),
                            Len(convolution.shape))
        w == At(convolution.window, chosen)
        new_window ==
            SetAt(convolution.window, chosen,
                  [w EXCEPT !.padding_high = c.high_padding_for_conv,
                            !.padding_low = c.low_padding_for_conv])
        new_conv_shape ==
            InferConvolveShape(halo.shape,
                               S.I[At(convolution.operands, 1)].shape,
                               new_window, new_dim_numbers,
                               convolution.batch_group_count)
        select_ok ==
            SelectValidPortionOk(new_conv_shape, convolution.shape,
                                 new_dim_numbers.output_batch_dimension,
                                 dim_numbers.output_batch_dimension)
        dim_map_val == <<dim_numbers.output_batch_dimension,
                         At(dim_numbers.output_spatial_dimensions, chosen)>>
    IN IF ~reshape_ok \/ ~halo.ok \/ ~select_ok THEN Fail(S)
       ELSE [AddInstruction(S,
                 Derived("convolution",
                         <<activations, At(convolution.operands, 1)>>,
                         new_conv_shape))
             EXCEPT !.o2n = MapPut(@, conv, NewHandle(S)),
                    !.dimmap = MapPut(@, conv, dim_map_val),
                    !.permmap = MapPut(@, NewHandle(S), transpose_dims)]

\* Lines 2033-2060: the size of one split.
SplitTransposed(S, conv, c, bs) ==
    LET convolution == S.I[conv]
        old_batch_size ==
            At(S.I[At(convolution.operands, 0)].shape,
               convolution.convolution_dimension_numbers.input_batch_dimension)
    IN SplitAndConvolve(S, conv, c, bs,
           SpatialSplitSize(S.I, S.rm, conv, c,
               CDiv(kNewBatchSize, old_batch_size),
               At(bs.dim_numbers.output_spatial_dimensions,
                  get_chosen_spatial_dim(convolution))))

\* Lines 2009-2029: the activations with space next to batch.
SplitWithDetails(S, conv, c) ==
    LET convolution == S.I[conv]
        dim_numbers0 == convolution.convolution_dimension_numbers
    IN SplitTransposed(S, conv, c,
           BringSpaceNextToBatch(S.I[At(convolution.operands, 0)].shape,
                                 dim_numbers0, c.spatial_dimension_to_split,
                                 dim_numbers0.input_batch_dimension))

\* Everything PerformSpaceToBatchOnConvolution computes before it hands the
\* convolution to PropagateOnUsers.
SpaceToBatchOnConvolution(S, conv) ==
    SplitWithDetails(S, conv,
        GetConvolutionDetails(S.I, S.I[conv],
                              S.I[conv].convolution_dimension_numbers))

---------------------------------------------------------------------------
(* Readiness checks *)

\* operator[] of the hash maps: a missing key is inserted with a default.
TouchDim(S, h) ==
    IF h \in DOMAIN S.dimmap THEN S
    ELSE [S EXCEPT !.dimmap = MapPut(@, h, <<0, 0>>)]

TouchPerm(S, h) ==
    IF h \in DOMAIN S.permmap THEN S
    ELSE [S EXCEPT !.permmap = MapPut(@, h, <<>>)]

\* A legality check that looks the convolution up with operator[], as the
\* other readiness checks do (it would leave an entry behind).
LegalityCheckedWithLookup(S, conv) == TouchDim(S, conv)

\* The state after IsConvSuitableForSpaceToBatch (lines 220-290) and
\* GetConvolutionDetails: they read the convolution and write nothing.
LegalityChecked(S, conv) == S

ElementwiseOpcodes == {"add", "negate", "copy"}

IsTrivialElementwise(hlo) ==
    IF hlo.opcode \in {"fusion", "rng", "copy", "constant", "iota"} THEN FALSE
    ELSE hlo.opcode \in ElementwiseOpcodes

IsElementwiseBinary(hlo) == hlo.opcode = "add"

\* A check that lets every broadcast through (the property of broadcast
\* operands does not hold of it).
BroadcastAlwaysPropagatable(S, broadcast, old_other_op) == TRUE

\* The caller has checked that old_other_op has a dim map entry.
IsBroadcastPropagatable(S, broadcast, old_other_op) ==
    LET result == S.dimmap[old_other_op]
        batch_dim == result[1]
        space_dim == result[2]
        broadcast_dims == S.I[broadcast].dimensions
    IN ~c_linear_search(broadcast_dims, batch_dim)
       /\ ~c_linear_search(broadcast_dims, space_dim)

\* A check that wants the reduced axes to be the batch and the space axis
\* and no other.
ReduceSupportedExactly(reduce_dims, batch_dim, space_dim) ==
    Range(reduce_dims) = {batch_dim, space_dim}

\* Lines 729-730: both the batch and the space axis are reduced.
ReduceSupported(reduce_dims, batch_dim, space_dim) ==
    c_linear_search(reduce_dims, batch_dim)
    /\ c_linear_search(reduce_dims, space_dim)

WindowedOpSupported(S, consumer) ==
    LET first_operand == At(S.I[consumer].operands, 0)
        window == S.I[consumer].window
    IN IF first_operand \notin DOMAIN S.dimmap THEN FALSE
       ELSE
       LET result == S.dimmap[first_operand]
           old_batch_dim == result[1]
           old_space_dim == result[2]
       IN IF At(window, old_batch_dim).size # 1 THEN FALSE
          ELSE IF At(window, old_space_dim).padding_low # 0 THEN FALSE
          ELSE IF At(window, old_space_dim).padding_high
                      > At(window, old_space_dim).size THEN FALSE
          ELSE IF first_operand \notin DOMAIN S.o2n THEN FALSE
          ELSE
          LET new_operand == S.o2n[first_operand]
              permute_dims == S.permmap[new_operand]
              new_space_dim == At(permute_dims, old_space_dim)
          IN IF At(window, old_space_dim).size # 1
                /\ CMod(At(S.I[new_operand].shape, new_space_dim),
                        At(window, old_space_dim).stride) # 0
             THEN FALSE
             ELSE TRUE

\* Returns the verdict and the state (a lookup may insert into a table).
SupportedOpForPropagation(S, consumer, producer) ==
    LET hlo == S.I[consumer]
    IN IF IsTrivialElementwise(hlo)
       THEN [S |-> S,
             result |-> \A i \in DOMAIN hlo.operands :
                            S.I[hlo.operands[i]].opcode = "broadcast"
                            => IsBroadcastPropagatable(S, hlo.operands[i],
                                                       producer)]
       ELSE IF hlo.opcode = "convolution" THEN [S |-> S, result |-> TRUE]
       ELSE IF hlo.opcode = "reduce"
       THEN LET S1 == TouchDim(S, At(hlo.operands, 0))
                result == S1.dimmap[At(hlo.operands, 0)]
            IN [S |-> S1,
                result |-> ReduceSupported(hlo.dimensions, result[1],
                                           result[2])]
       ELSE IF hlo.opcode \in {"reduce-window", "select-and-scatter"}
       THEN LET first_operand == At(hlo.operands, 0)
                S1 == IF first_operand \in DOMAIN S.dimmap
                         /\ first_operand \in DOMAIN S.o2n
                      THEN TouchPerm(S, S.o2n[first_operand])
                      ELSE S
            IN [S |-> S1, result |-> WindowedOpSupported(S1, consumer)]
       ELSE [S |-> S, result |-> FALSE]

\* The loop of CanPropagate over the operands of an elementwise consumer:
\* "true", "false", or "check" when a CHECK fails.
RECURSIVE CanPropagateElementwise(_, _, _, _, _)
CanPropagateElementwise(S, consumer, producer, i, pivot_operand) ==
    LET hlo == S.I[consumer]
    IN IF i >= Len(hlo.operands) THEN "true"
       ELSE
       LET old_producer == At(hlo.operands, i)
           broadcast_or_constant ==
               S.I[old_producer].opcode = "constant"
               \/ (S.I[old_producer].opcode = "broadcast"
                   /\ IsBroadcastPropagatable(S, old_producer, producer))
       IN IF old_producer \notin DOMAIN S.o2n /\ ~broadcast_or_constant
          THEN "false"
          ELSE IF broadcast_or_constant
          THEN CanPropagateElementwise(S, consumer, producer, i + 1,
                                       pivot_operand)
          ELSE IF old_producer \notin DOMAIN S.dimmap THEN "check"
          ELSE IF pivot_operand = 0
          THEN CanPropagateElementwise(S, consumer, producer, i + 1,
                                       old_producer)
          ELSE IF S.dimmap[pivot_operand] # S.dimmap[old_producer]
          THEN "false"
          ELSE
          LET pivot_new_instr == S.o2n[pivot_operand]
              pivot_permute_dims == S.permmap[pivot_new_instr]
              new_instr == S.o2n[old_producer]
              permute_dims == S.permmap[new_instr]
              same ==
                  \A j \in 0..(Len(pivot_permute_dims) - 1) :
                      /\ At(pivot_permute_dims, j) = At(permute_dims, j)
                      /\ (At(S.I[pivot_new_instr].shape, j)
                              # At(S.I[new_instr].shape, j)
                          => (IsElementwiseBinary(hlo)
                              /\ j = S.dimmap[pivot_operand][2]))
          IN IF ~same THEN "false"
             ELSE CanPropagateElementwise(S, consumer, producer, i + 1,
                                          pivot_operand)

\* The convolution branch of CanPropagate for a convolution that fails the
\* legality check (a backprop-filter convolution).
CanPropagateBackpropFilter(S, consumer) ==
    LET hlo == S.I[consumer]
        chosen == get_chosen_spatial_dim(hlo)
    IN IF At(hlo.window, chosen).stride # 1 THEN FALSE
       ELSE IF \E i \in DOMAIN hlo.operands :
                   \/ hlo.operands[i] \notin DOMAIN S.o2n
                   \/ S.o2n[hlo.operands[i]] \notin DOMAIN S.permmap
       THEN FALSE
       ELSE
       LET first_operand == S.o2n[At(hlo.operands, 0)]
           dim_map_val_op_0 == S.dimmap[At(hlo.operands, 0)]
           second_operand == S.o2n[At(hlo.operands, 1)]
           dim_map_val_op_1 == S.dimmap[At(hlo.operands, 1)]
           permute_dims_first_operand == S.permmap[first_operand]
           permute_dims_second_operand == S.permmap[second_operand]
           new_batch_dim_operand_0 ==
               At(permute_dims_first_operand, dim_map_val_op_0[1])
           new_space_dim_operand_0 ==
               At(permute_dims_first_operand, dim_map_val_op_0[2])
           new_batch_dim_operand_1 ==
               At(permute_dims_second_operand, dim_map_val_op_1[1])
           new_space_dim_operand_1 ==
               At(permute_dims_second_operand, dim_map_val_op_1[2])
           rhs_dilation == At(hlo.window, chosen).window_dilation
       IN IF At(S.I[first_operand].shape, new_batch_dim_operand_0)
                 # At(S.I[second_operand].shape, new_batch_dim_operand_1)
          THEN FALSE
          ELSE IF At(S.I[first_operand].shape, new_space_dim_operand_0)
                      # rhs_dilation
                        * At(S.I[second_operand].shape,
                             new_space_dim_operand_1)
          THEN FALSE
          ELSE TRUE

CanPropagate(S, consumer, producer, limit) ==
    LET hlo == S.I[consumer]
        elementwise ==
            IF IsTrivialElementwise(hlo)
            THEN CanPropagateElementwise(S, consumer, producer, 0, 0)
            ELSE "true"
    IN IF elementwise = "check" THEN [S |-> Fail(S), result |-> FALSE]
       ELSE IF elementwise = "false" THEN [S |-> S, result |-> FALSE]
       ELSE IF hlo.opcode = "convolution"
       THEN IF IsConvSuitableForSpaceToBatch(S.I, hlo, limit)
            THEN [S |-> LegalityChecked(S, consumer),
                  result |-> At(hlo.operands, 0) \in DOMAIN S.o2n]
            ELSE [S |-> LegalityChecked(S, consumer),
                  result |-> CanPropagateBackpropFilter(S, consumer)]
       ELSE IF hlo.opcode \in {"reduce-window", "reduce"}
       THEN [S |-> S, result |-> At(hlo.operands, 0) \in DOMAIN S.o2n]
       ELSE [S |-> S, result |-> TRUE]

---------------------------------------------------------------------------
(* Propagate: elementwise consumers *)

\* Lexicographic "greater than" of two dimension vectors (absl::Span).
RECURSIVE LexGreaterFrom(_, _, _)
LexGreaterFrom(a, b, i) ==
    IF i > Len(a) THEN FALSE
    ELSE IF i > Len(b) THEN TRUE
    ELSE IF a[i] # b[i] THEN a[i] > b[i]
    ELSE LexGreaterFrom(a, b, i + 1)

LexGreater(a, b) == LexGreaterFrom(a, b, 1)

\* The operand PropagateElementwise measures the others against.
ElementwisePivot(S, consumer, producer) ==
    LET hlo == S.I[consumer]
        op0 == At(hlo.operands, 0)
        op1 == At(hlo.operands, 1)
    IN IF ~IsElementwiseBinary(hlo) THEN [ok |-> TRUE, producer |-> producer]
       ELSE IF S.I[op0].opcode = "broadcast"
       THEN [ok |-> TRUE, producer |-> producer]
       ELSE IF op0 \notin DOMAIN S.o2n THEN [ok |-> FALSE, producer |-> producer]
       ELSE IF S.I[op1].opcode = "broadcast"
       THEN [ok |-> TRUE, producer |-> producer]
       ELSE IF op1 \notin DOMAIN S.o2n THEN [ok |-> FALSE, producer |-> producer]
       ELSE IF LexGreater(S.I[S.o2n[op0]].shape, S.I[S.o2n[op1]].shape)
       THEN [ok |-> TRUE, producer |-> op0]
       ELSE [ok |-> TRUE, producer |-> op1]

\* One non-broadcast operand of the new consumer: the rewritten operand, or
\* that operand reshaped, padded and reshaped back to the pivot's extent.
\* Returns whether every CHECK and primitive succeeds.
ElementwiseOperandOk(S, operand, producer) ==
    IF operand \notin DOMAIN S.o2n THEN FALSE
    ELSE
    LET result == S.dimmap[producer]
        old_batch_dim == result[1]
        old_space_dim == result[2]
        old_batch_size == At(S.I[producer].shape, old_batch_dim)
        new_instr == S.o2n[operand]
        pivot_new_instr == S.o2n[producer]
        permute_dims == S.permmap[new_instr]
        batch_dim == At(permute_dims, old_batch_dim)
        space_dim == At(permute_dims, old_space_dim)
        new_shape == S.I[new_instr].shape
        pivot_shape == S.I[pivot_new_instr].shape
        batch_size == At(new_shape, batch_dim)
    IN IF At(new_shape, space_dim) = At(pivot_shape, space_dim) THEN TRUE
       ELSE
       LET d1 == SetAt(new_shape, space_dim,
                       At(new_shape, space_dim)
                           * CDiv(batch_size, old_batch_size))
           new_dimensions == SetAt(d1, batch_dim, old_batch_size)
           pivot_space_size ==
               CDiv(At(pivot_shape, space_dim) * batch_size, old_batch_size)
           padded == SetAt(new_dimensions, space_dim, pivot_space_size)
       IN /\ batch_dim + 1 = space_dim
          /\ Product(new_dimensions) = Product(new_shape)
          /\ pivot_space_size > At(new_dimensions, space_dim)
          /\ Product(padded) = Product(pivot_shape)

\* The operands of the new consumer, left to right; a broadcast operand is
\* re-created (a new instruction) in the rewritten producer's shape.
RECURSIVE ElementwiseOperands(_, _, _, _, _)
ElementwiseOperands(S, consumer, producer, i, acc) ==
    LET hlo == S.I[consumer]
    IN IF i >= Len(hlo.operands) \/ ~S.ok THEN [S |-> S, operands |-> acc]
       ELSE
       LET operand == At(hlo.operands, i)
       IN IF S.I[operand].opcode = "broadcast"
          THEN IF producer \notin DOMAIN S.o2n
               THEN [S |-> Fail(S), operands |-> acc]
               ELSE
               LET new_producer == S.o2n[producer]
                   permute_dims == S.permmap[new_producer]
                   broadcast_dims ==
                       [j \in DOMAIN S.I[operand].dimensions |->
                           At(permute_dims, S.I[operand].dimensions[j])]
                   new_broadcast ==
                       HloInstruction("broadcast",
                                      <<At(S.I[operand].operands, 0)>>,
                                      S.I[new_producer].shape, broadcast_dims,
                                      <<>>, NoDimensionNumbers, 1)
                   h == NewHandle(S)
               IN ElementwiseOperands(AddInstruction(S, new_broadcast),
                                      consumer, producer, i + 1,
                                      Append(acc, h))
          ELSE IF ~ElementwiseOperandOk(S, operand, producer)
          THEN [S |-> Fail(S), operands |-> acc]
          ELSE ElementwiseOperands(S, consumer, producer, i + 1,
                                   Append(acc, S.o2n[operand]))

\* A consumer that gets a default entry instead of its producer's.
DimMapValDefault(S, producer) == <<0, 0>>

\* Line 789: dim_map_val = instr_to_dim_map_[producer].
DimMapVal(S, producer) == S.dimmap[producer]

\* Lines 892-909: the new consumer and its table entries.
ElementwiseRewritten(S, consumer, producer0, producer, r) ==
    IF ~r.S.ok THEN [S |-> r.S, needs |-> TRUE]
    ELSE IF r.S.o2n[producer] \notin DOMAIN r.S.permmap
    THEN [S |-> Fail(r.S), needs |-> TRUE]
    ELSE [S |-> [AddInstruction(r.S,
                     [r.S.I[consumer] EXCEPT
                         !.operands = r.operands,
                         !.shape = r.S.I[r.S.o2n[producer]].shape])
                 EXCEPT
                     !.o2n = MapPut(@, consumer, NewHandle(r.S)),
                     !.dimmap = MapPut(@, consumer, DimMapVal(S, producer0)),
                     !.permmap = MapPut(@, NewHandle(r.S),
                                        r.S.permmap[r.S.o2n[producer]])],
          needs |-> TRUE]

ElementwiseWithPivot(S, consumer, producer0, pivot) ==
    IF ~pivot.ok THEN [S |-> Fail(S), needs |-> TRUE]
    ELSE ElementwiseRewritten(S, consumer, producer0, pivot.producer,
             ElementwiseOperands(S, consumer, pivot.producer, 0, <<>>))

PropagateElementwise(S, consumer, producer0) ==
    ElementwiseWithPivot(S, consumer, producer0,
                         ElementwisePivot(S, consumer, producer0))

---------------------------------------------------------------------------
(* Propagate: reduce and reduce-window consumers *)

PropagateReduce(S, consumer) ==
    LET hlo == S.I[consumer]
        operand0 == At(hlo.operands, 0)
        first_operand == S.o2n[operand0]
        dim_map_val == S.dimmap[operand0]
        old_batch_dim == dim_map_val[1]
        old_space_dim == dim_map_val[2]
        permute_dims == S.permmap[first_operand]
        new_batch_dim == At(permute_dims, old_batch_dim)
        select_ok ==
            SelectValidPortionOk(S.I[first_operand].shape, S.I[operand0].shape,
                                 new_batch_dim, old_batch_dim)
        changed_dims ==
            [i \in DOMAIN hlo.dimensions |-> At(permute_dims, hlo.dimensions[i])]
    IN IF ~select_ok THEN [S |-> Fail(S), needs |-> FALSE]
       ELSE
       LET h == NewHandle(S)
           new_consumer ==
               [hlo EXCEPT !.dimensions = changed_dims,
                           !.operands = SetAt(hlo.operands, 0, first_operand)]
           S1 == AddInstruction(S, new_consumer)
       IN [S |-> [S1 EXCEPT !.o2n = MapPut(@, consumer, h),
                            !.dimmap = MapPut(@, consumer, dim_map_val)],
           needs |-> FALSE]

\* ShapeInference::InferReduceWindowShape.
InferReduceWindowShape(shape, window) ==
    [d \in 1..Len(shape) |-> WindowOutputSize(shape[d], window[d])]

\* Lines 982-990: the halo a windowed consumer needs from the next split.
RequiredHalo(new_space_size, stride, window_size) ==
    LET last_overlap_point == CDiv(new_space_size - 1, stride) * stride
    IN last_overlap_point + window_size - new_space_size

\* The window the rewritten reduce-window is built with.
PermutedWindow(window, permute_dims, old_space_dim) ==
    [k \in 1..Len(window) |->
        LET i == k - 1
            dim == At(permute_dims, i)
            w == At(window, dim)
        IN IF i = old_space_dim
           THEN [w EXCEPT !.padding_high = 0, !.padding_low = 0]
           ELSE w]

PropagateReduceWindow(S, consumer) ==
    LET hlo == S.I[consumer]
        operand0 == At(hlo.operands, 0)
        first_operand == S.o2n[operand0]
        init_val == At(hlo.operands, 1)
        dim_map_val == S.dimmap[operand0]
        old_batch_dim == dim_map_val[1]
        old_space_dim == dim_map_val[2]
        permute_dims == S.permmap[first_operand]
        new_batch_dim == At(permute_dims, old_batch_dim)
        new_space_dim == At(permute_dims, old_space_dim)
        new_shape0 == S.I[first_operand].shape
        select_ok ==
            SelectValidPortionOk(new_shape0, S.I[operand0].shape,
                                 new_batch_dim, old_batch_dim)
        new_space_size == At(new_shape0, new_space_dim)
        stride == At(hlo.window, old_space_dim).stride
        window_size == At(hlo.window, old_space_dim).size
        halo_size == RequiredHalo(new_space_size, stride, window_size)
        halo == IF halo_size > 0
                THEN HaloDuplicateShape(new_shape0, new_space_dim,
                                        new_batch_dim, 0, halo_size)
                ELSE [ok |-> TRUE, shape |-> new_shape0]
        new_win == PermutedWindow(hlo.window, permute_dims, old_space_dim)
        new_reduce_window_shape == InferReduceWindowShape(halo.shape, new_win)
    IN IF ~select_ok \/ ~halo.ok THEN [S |-> Fail(S), needs |-> TRUE]
       ELSE
       LET h == NewHandle(S)
           new_consumer ==
               HloInstruction("reduce-window", <<first_operand, init_val>>,
                              new_reduce_window_shape, <<>>, new_win,
                              NoDimensionNumbers, 1)
           S1 == AddInstruction(S, new_consumer)
       IN [S |-> [S1 EXCEPT
                     !.o2n = MapPut(@, consumer, h),
                     !.dimmap = MapPut(@, consumer, dim_map_val),
                     !.permmap = MapPut(@, h, S.permmap[S.o2n[operand0]])],
           needs |-> TRUE]

---------------------------------------------------------------------------
(* PropagateOnConv: a legal convolution whose activations are rewritten *)

\* while (spatial_split_size * num_splits + halo_size - spatial_size < 0)
RECURSIVE GrowToCoverWithHalo(_, _, _, _, _)
GrowToCoverWithHalo(spatial_split_size, stride, num_splits, halo_size, spatial_size) ==
    IF spatial_split_size * num_splits + halo_size - spatial_size < 0
    THEN GrowToCoverWithHalo(spatial_split_size + stride, stride, num_splits,
                             halo_size, spatial_size)
    ELSE spatial_split_size

PermuteInputDims(dn, permute_dims) ==
    [dn EXCEPT
        !.input_batch_dimension = At(permute_dims, dn.input_batch_dimension),
        !.input_feature_dimension =
            At(permute_dims, dn.input_feature_dimension),
        !.input_spatial_dimensions =
            [i \in DOMAIN dn.input_spatial_dimensions |->
                At(permute_dims, dn.input_spatial_dimensions[i])]]

\* The activations PropagateOnConv feeds to the new convolution: their shape
\* and whether every reshape, pad and halo slice succeeds.
PropagatedActivations(shape, space, batch, c, old_batch_size, num_splits, spatial_split_size0) ==
    LET new_batch_size == At(shape, batch)
        new_space_size == At(shape, space)
        low_padding ==
            IF c.base_dilation_factor # 1 /\ c.inherent_low_padding # 0
            THEN c.base_dilation_factor - 1
            ELSE c.inherent_low_padding
    IN IF spatial_split_size0 > new_space_size
       THEN LET reshaped_space_size ==
                    CDiv(new_space_size * new_batch_size, old_batch_size)
                d1 == SetAt(shape, space, reshaped_space_size)
                new_dimensions == SetAt(d1, batch, old_batch_size)
                pad_high ==
                    spatial_split_size0 * new_batch_size - reshaped_space_size
                padded == SetAt(new_dimensions, space,
                                reshaped_space_size + pad_high)
                b1 == SetAt(padded, space, spatial_split_size0)
                reshape_back_dims == SetAt(b1, batch, new_batch_size)
                halo == HaloDuplicateShape(reshape_back_dims, space, batch,
                                           low_padding, c.halo_size)
            IN [ok |-> /\ Product(new_dimensions) = Product(shape)
                       /\ Product(reshape_back_dims) = Product(padded)
                       /\ halo.ok,
                shape |-> halo.shape]
       ELSE LET additional_space_present ==
                    CMod(spatial_split_size0, c.stride)
                halo_size ==
                    IF spatial_split_size0 < new_space_size
                    THEN Max(c.kernel_spatial_dim_size - c.stride
                                 - additional_space_present, 0)
                    ELSE c.halo_size
            IN HaloDuplicateShape(shape, space, batch, low_padding, halo_size)

\* A convolution rewritten by propagation that stays in the to-visit set
\* (Run's loop would then rewrite it a second time).
ConvToVisitKept(convs, conv) == convs

\* convs_to_visit_.erase(conv) (line 1619).
EraseConvToVisit(convs, conv) == convs \ {conv}

\* PropagateOnConv from the split size (line 1473) to the tables it fills.
ConvolveRewritten(S, conv, c, bs, spatial_split_size) ==
    LET convolution == S.I[conv]
        activations_old == At(convolution.operands, 0)
        activations_new == S.o2n[activations_old]
        original_conv_dims == convolution.convolution_dimension_numbers
        chosen == get_chosen_spatial_dim(convolution)
        old_batch_dim == original_conv_dims.input_batch_dimension
        old_batch_size == At(S.I[activations_old].shape, old_batch_dim)
        dim_numbers == bs.dim_numbers
        space == bs.spatial_dimension_to_split
        batch == bs.activations_batch_dim
        select_ok ==
            SelectValidPortionOk(bs.shape, S.I[activations_old].shape,
                                 batch, old_batch_dim)
        num_splits == CDiv(kNewBatchSize, old_batch_size)
        acts == PropagatedActivations(bs.shape, space, batch, c,
                    old_batch_size, num_splits, spatial_split_size)
        new_dim_numbers == NewOutputDimNumbers(dim_numbers, chosen)
        transpose_dims ==
            TransposeDimsOf(OutputDimMap(dim_numbers, chosen),
                            Len(convolution.shape))
        w == At(convolution.window, chosen)
        new_window ==
            SetAt(convolution.window, chosen,
                  [w EXCEPT !.padding_high = c.high_padding_for_conv,
                            !.padding_low = c.low_padding_for_conv])
    IN IF ~select_ok \/ ~acts.ok THEN Fail(S)
       ELSE [AddInstruction(S,
                 Derived("convolution",
                         <<activations_new, At(convolution.operands, 1)>>,
                         InferConvolveShape(acts.shape,
                             S.I[At(convolution.operands, 1)].shape,
                             new_window, new_dim_numbers,
                             convolution.batch_group_count)))
             EXCEPT
                 !.o2n = MapPut(@, conv, NewHandle(S)),
                 !.dimmap =
                     MapPut(@, conv,
                            <<original_conv_dims.output_batch_dimension,
                              At(original_conv_dims.output_spatial_dimensions,
                                 chosen)>>),
                 !.permmap = MapPut(@, NewHandle(S), transpose_dims),
                 !.convs = EraseConvToVisit(S.convs, conv)]

\* Lines 1453-1471: the size of one split.
ConvolveTransposed(S, conv, c, bs) ==
    LET convolution == S.I[conv]
        original_conv_dims == convolution.convolution_dimension_numbers
        old_batch_size ==
            At(S.I[At(convolution.operands, 0)].shape,
               original_conv_dims.input_batch_dimension)
        num_splits == CDiv(kNewBatchSize, old_batch_size)
        output_offsets ==
            At(convolution.shape,
               At(bs.dim_numbers.output_spatial_dimensions,
                  get_chosen_spatial_dim(convolution)))
        output_offsets_per_split == CeilOfRatio(output_offsets, num_splits)
        s0 == CeilOfRatio(output_offsets_per_split, c.base_dilation_factor)
                  * c.stride
    IN ConvolveRewritten(S, conv, c, bs,
           GrowToCoverWithHalo(s0, c.stride, num_splits, c.halo_size,
                               c.spatial_size))

\* Lines 1431-1440: the rewritten activations with space next to batch.
ConvolveWithDetails(S, conv, permuted_conv_dims_numbers, c) ==
    ConvolveTransposed(S, conv, c,
        BringSpaceNextToBatch(
            S.I[S.o2n[At(S.I[conv].operands, 0)]].shape,
            permuted_conv_dims_numbers, c.spatial_dimension_to_split,
            permuted_conv_dims_numbers.input_batch_dimension))

ConvolvePermuted(S, conv, permuted_conv_dims_numbers) ==
    ConvolveWithDetails(S, conv, permuted_conv_dims_numbers,
        GetConvolutionDetails(S.I, S.I[conv], permuted_conv_dims_numbers))

PropagateOnConv(S, conv) ==
    LET convolution == S.I[conv]
        activations_old == At(convolution.operands, 0)
    IN IF activations_old \notin DOMAIN S.o2n THEN Fail(S)
       ELSE ConvolvePermuted(S, conv,
                PermuteInputDims(convolution.convolution_dimension_numbers,
                                 S.permmap[S.o2n[activations_old]]))

---------------------------------------------------------------------------
(* PropagateOnBackpropFilterConv *)

RemoveAt(s, i) == [k \in 1..(Len(s) - 1) |-> IF k <= i THEN s[k] ELSE s[k + 1]]

\* What shape inference requires of a convolution's operands.
ConvolveOk(lhs, rhs, window, dn) ==
    /\ At(lhs, dn.input_feature_dimension)
           = At(rhs, dn.kernel_input_feature_dimension)
    /\ \A j \in DOMAIN dn.kernel_spatial_dimensions :
           At(rhs, dn.kernel_spatial_dimensions[j]) = window[j].size

BackpropFilterDimNumbers(original_conv_dims, permute_dims, chosen, new_spatial_dimension) ==
    LET previous_spatial_dim_count ==
            Len(original_conv_dims.input_spatial_dimensions)
        previous_chosen_spatial_dim_in_output ==
            At(original_conv_dims.output_spatial_dimensions, chosen)
    IN [original_conv_dims EXCEPT
           !.input_spatial_dimensions =
               Append([i \in DOMAIN @ |-> At(permute_dims, @[i])],
                      new_spatial_dimension),
           !.kernel_spatial_dimensions =
               Append([i \in DOMAIN @ |-> At(permute_dims, @[i])],
                      new_spatial_dimension),
           !.output_spatial_dimensions =
               Append(SetAt(@, chosen, new_spatial_dimension),
                      previous_chosen_spatial_dim_in_output),
           !.kernel_input_feature_dimension = At(permute_dims, @),
           !.kernel_output_feature_dimension = At(permute_dims, @),
           !.input_batch_dimension =
               At(permute_dims, original_conv_dims.input_batch_dimension),
           !.input_feature_dimension =
               At(permute_dims, original_conv_dims.input_feature_dimension)]

\* PropagateOnBackpropFilterConv from the masking of the operands
\* (line 1716) to the tables it fills.
BackpropFilterTransposed(S, conv, permuted, bs) ==
    LET convolution == S.I[conv]
        activations_old == At(convolution.operands, 0)
        kernel_old == At(convolution.operands, 1)
        activations_new == S.o2n[activations_old]
        kernel_new == S.o2n[kernel_old]
        permute_dims == S.permmap[activations_new]
        original_conv_dims == convolution.convolution_dimension_numbers
        chosen == get_chosen_spatial_dim(convolution)
        old_space_dim == At(original_conv_dims.input_spatial_dimensions, chosen)
        old_split_dim_size == At(S.I[activations_old].shape, old_space_dim)
        old_kernel_space_dim ==
            At(original_conv_dims.kernel_spatial_dimensions, chosen)
        old_kernel_split_dim_size ==
            At(S.I[kernel_old].shape, old_kernel_space_dim)
        activations_feature_dim ==
            At(permute_dims, original_conv_dims.input_batch_dimension)
        kernel_input_feature_dim == permuted.kernel_input_feature_dimension
        old_batch_dim == original_conv_dims.input_feature_dimension
        new_split_dim_size ==
            At(S.I[activations_new].shape,
               At(permuted.input_spatial_dimensions, chosen))
        space == bs.spatial_dimension_to_split
        batch == bs.activations_batch_dim
        new_dim_numbers ==
            [bs.dim_numbers EXCEPT
                !.input_batch_dimension = activations_feature_dim]
        select_ok ==
            /\ SelectValidPortionOk(bs.shape, S.I[activations_old].shape,
                                    batch, old_batch_dim)
            /\ SelectValidPortionOk(S.I[kernel_new].shape,
                   S.I[kernel_old].shape, kernel_input_feature_dim,
                   original_conv_dims.kernel_input_feature_dimension)
        w == At(convolution.window, chosen)
        inherent_low_padding == w.padding_low
        inherent_high_padding == w.padding_high
        rhs_dilation == w.window_dilation
        expanded_kernel ==
            old_kernel_split_dim_size * rhs_dilation - (rhs_dilation - 1)
        overlap_count ==
            old_split_dim_size - expanded_kernel + 1
            + (IF inherent_low_padding < 0 THEN inherent_low_padding ELSE 0)
            + (IF inherent_high_padding < 0 THEN inherent_high_padding ELSE 0)
        low_chunk == HaloDuplicateShape(bs.shape, space, batch, 1, 0)
        shift_chunk == HaloDuplicateShape(bs.shape, space, batch, -1, 0)
        chunks == Max(inherent_low_padding, 0) + Max(overlap_count, 0)
                  + Max(inherent_high_padding, 0)
        chunks_ok ==
            /\ chunks >= 1
            /\ inherent_low_padding > 0 =>
                   (low_chunk.ok /\ low_chunk.shape = bs.shape)
            /\ (overlap_count > 1 \/ inherent_high_padding > 0) =>
                   (shift_chunk.ok /\ shift_chunk.shape = bs.shape)
        activations_shape == Append(bs.shape, chunks)
        kernel_shape == Append(S.I[kernel_new].shape, 1)
        new_window ==
            Append(SetAt(convolution.window, chosen,
                         [w EXCEPT !.padding_high = 0 - (rhs_dilation - 1),
                                   !.padding_low = 0,
                                   !.size = CDiv(new_split_dim_size,
                                                 rhs_dilation)]),
                   TrivialWindowDimension)
        conv_ok == ConvolveOk(activations_shape, kernel_shape, new_window,
                              new_dim_numbers)
        conv_shape ==
            InferConvolveShape(activations_shape, kernel_shape, new_window,
                               new_dim_numbers, convolution.batch_group_count)
        erased == At(new_dim_numbers.output_spatial_dimensions, chosen)
    IN IF ~select_ok \/ ~chunks_ok \/ ~conv_ok
          \/ Product(RemoveAt(conv_shape, erased)) # Product(conv_shape)
       THEN Fail(S)
       ELSE [AddInstruction(S,
                 Derived("reshape", <<activations_new, kernel_new>>,
                         RemoveAt(conv_shape, erased)))
             EXCEPT
                 !.o2n = MapPut(@, conv, NewHandle(S)),
                 !.dimmap =
                     MapPut(@, conv,
                            <<original_conv_dims.output_batch_dimension,
                              At(original_conv_dims.output_spatial_dimensions,
                                 chosen)>>)]

\* Lines 1700-1714: the rewritten activations with space next to batch.
BackpropFilterPermuted(S, conv, permuted) ==
    LET convolution == S.I[conv]
        activations_new == S.o2n[At(convolution.operands, 0)]
        permute_dims == S.permmap[activations_new]
        original_conv_dims == convolution.convolution_dimension_numbers
        activations_batch_dim ==
            At(permute_dims, original_conv_dims.input_feature_dimension)
        activations_feature_dim ==
            At(permute_dims, original_conv_dims.input_batch_dimension)
    IN BackpropFilterTransposed(S, conv, permuted,
           BringSpaceNextToBatch(S.I[activations_new].shape,
               [permuted EXCEPT
                   !.input_batch_dimension = activations_feature_dim,
                   !.input_feature_dimension = activations_batch_dim],
               At(permuted.input_spatial_dimensions,
                  get_chosen_spatial_dim(convolution)),
               activations_batch_dim))

PropagateOnBackpropFilterConv(S, conv) ==
    LET convolution == S.I[conv]
        activations_old == At(convolution.operands, 0)
        kernel_old == At(convolution.operands, 1)
    IN IF activations_old \notin DOMAIN S.o2n \/ kernel_old \notin DOMAIN S.o2n
       THEN Fail(S)
       ELSE BackpropFilterPermuted(S, conv,
                BackpropFilterDimNumbers(
                    convolution.convolution_dimension_numbers,
                    S.permmap[S.o2n[activations_old]],
                    get_chosen_spatial_dim(convolution),
                    Len(S.I[S.o2n[activations_old]].shape)))

---------------------------------------------------------------------------
(* Propagate *)

Propagate(S, consumer, producer, limit) ==
    LET hlo == S.I[consumer]
    IN IF IsTrivialElementwise(hlo)
       THEN PropagateElementwise(S, consumer, producer)
       ELSE IF hlo.opcode = "convolution"
       THEN IF IsConvSuitableForSpaceToBatch(S.I, hlo, limit)
            THEN [S |-> PropagateOnConv(LegalityChecked(S, consumer),
                                        consumer),
                  needs |-> TRUE]
            ELSE [S |-> PropagateOnBackpropFilterConv(
                            LegalityChecked(S, consumer), consumer),
                  needs |-> FALSE]
       ELSE IF hlo.opcode = "reduce" THEN PropagateReduce(S, consumer)
       ELSE IF hlo.opcode = "reduce-window"
       THEN PropagateReduceWindow(S, consumer)
       ELSE [S |-> Fail(S), needs |-> TRUE]

---------------------------------------------------------------------------
(* PropagateOnUsers *)

\* The loop over node's users (lines 1374-1394). wl is the worklist, ev the
\* record of what was decided for each user.
RECURSIVE UserLoop(_, _, _, _, _, _)
RECURSIVE UserChecked(_, _, _, _, _, _)
RECURSIVE UserConverted(_, _, _, _, _, _)
RECURSIVE UserReady(_, _, _, _, _, _)

UserLoop(S, us, node, wl, ev, limit) ==
    IF us = <<>> \/ ~S.ok THEN [S |-> S, wl |-> wl, ev |-> ev]
    ELSE UserChecked(SupportedOpForPropagation(S, Head(us), node), us, node,
                     wl, ev, limit)

\* sup: the verdict of SupportedOpForPropagation on the first of us.
UserChecked(sup, us, node, wl, ev, limit) ==
    IF ~sup.result
    THEN UserConverted(BatchToSpace(sup.S, node), us, node, wl, ev, limit)
    ELSE UserReady(CanPropagate(sup.S, Head(us), node, limit), us, node, wl,
                   ev, limit)

\* The conversion given to every user of node instead of the unsupported one
\* alone (the frame property of the unsupported user does not hold of it).
UserConvertedEverywhere(b, us, node, wl, ev, limit) ==
    IF ~b.S.ok THEN [S |-> b.S, wl |-> wl, ev |-> ev]
    ELSE UserLoop([b.S EXCEPT
                      !.I = [h \in DOMAIN b.S.I |->
                                IF h = b.instr THEN b.S.I[h]
                                ELSE ReplaceOperands(b.S.I[h], node, b.instr)]],
                  Tail(us), node, wl,
                  Append(ev, [user |-> Head(us), node |-> node,
                              kind |-> "unsupported", conversion |-> b.instr]),
                  limit)

\* b: node's conversion for an unsupported user (lines 1377-1384).
UserConverted(b, us, node, wl, ev, limit) ==
    IF ~b.S.ok THEN [S |-> b.S, wl |-> wl, ev |-> ev]
    ELSE UserLoop(ReplaceOperandWith(b.S, Head(us), node, b.instr), Tail(us),
                  node, wl,
                  Append(ev, [user |-> Head(us), node |-> node,
                              kind |-> "unsupported", conversion |-> b.instr]),
                  limit)

\* A ready user that is left in the set.
NonPropagatableKept(set, user) == set

\* Line 1388: non_propagatable_instrs_.erase(user).
EraseNonPropagatable(set, user) == set \ {user}

\* can: the verdict of CanPropagate on a supported user (lines 1387-1393).
UserReady(can, us, node, wl, ev, limit) ==
    IF ~can.S.ok THEN [S |-> can.S, wl |-> wl, ev |-> ev]
    ELSE IF can.result
    THEN UserLoop([can.S EXCEPT
                      !.nonprop = EraseNonPropagatable(@, Head(us))],
                  Tail(us), node,
                  Append(wl, <<Head(us), node>>),
                  Append(ev, [user |-> Head(us), node |-> node,
                              kind |-> "ready", conversion |-> 0]),
                  limit)
    ELSE UserLoop([can.S EXCEPT !.nonprop = @ \cup {Head(us)}], Tail(us),
                  node, wl,
                  Append(ev, [user |-> Head(us), node |-> node,
                              kind |-> "not ready", conversion |-> 0]),
                  limit)

\* A conversion that is made but not put in the place of the node (the root
\* property does not hold of it).
ConvertedNotReplaced(b, node) == b.S

\* ReplaceInstruction(node, conversion) when BatchToSpace succeeded.
ReplaceConverted(b, node) ==
    IF b.S.ok THEN ReplaceInstruction(b.S, node, b.instr) ELSE b.S

TurnUsers(r) ==
    [S |-> r.S, wl |-> r.wl, ev |-> r.ev, kind |-> "users", needs |-> TRUE]

\* Lines 1349-1395: what follows Propagate in one turn of the loop.
TurnPropagated(p, node, rest, limit) ==
    IF ~p.S.ok
    THEN [S |-> p.S, wl |-> rest, ev |-> <<>>, kind |-> "failed",
          needs |-> p.needs]
    ELSE IF ~p.needs
    THEN [S |-> ReplaceInstruction(p.S, node, p.S.o2n[node]), wl |-> rest,
          ev |-> <<>>, kind |-> "direct", needs |-> FALSE]
    ELSE IF p.S.root = node
    THEN [S |-> ReplaceConverted(BatchToSpace(p.S, node), node), wl |-> rest,
          ev |-> <<>>, kind |-> "root", needs |-> TRUE]
    ELSE TurnUsers(UserLoop(p.S, Users(p.S.I, p.S.rm, node), node, rest,
                            <<>>, limit))

\* A turn that puts the node it passes over back on the worklist (the
\* worklist then never runs empty).
SkipTurnRequeued(S, node, parent, rest) ==
    [S |-> S, wl |-> Append(rest, <<node, parent>>), ev |-> <<>>,
     kind |-> "skip", needs |-> TRUE]

\* Lines 1337-1342: the front is popped and, being rewritten already, left.
SkipTurn(S, node, parent, rest) ==
    [S |-> S, wl |-> rest, ev |-> <<>>, kind |-> "skip", needs |-> TRUE]

\* One turn of the while loop (lines 1332-1396) on the front of the worklist.
\* kind tells which way the turn went.
WorklistTurn(S, node, parent, rest, count, limit) ==
    IF node \in DOMAIN S.o2n /\ count # 0
    THEN SkipTurn(S, node, parent, rest)
    ELSE TurnPropagated(IF count # 0 THEN Propagate(S, node, parent, limit)
                        ELSE [S |-> S, needs |-> TRUE],
                        node, rest, limit)

NotReadyOf(ev) == {ev[i].user : i \in {j \in DOMAIN ev : ev[j].kind = "not ready"}}

NoStep == [node |-> 0, parent |-> 0, kind |-> "none", needs |-> TRUE, ev |-> <<>>]

---------------------------------------------------------------------------
(* Values: the [batch, space] plane of an array *)

\* The indices of an array of b rows (batch) and s columns (space).
Cells(b, s) == (0..(b - 1)) \X (0..(s - 1))

\* An array with the cells v; ok is FALSE when an HLO builder has refused to
\* make it.
Plane(b, s, v) == [b |-> b, s |-> s, v |-> v, ok |-> TRUE]

NoPlane == [b |-> 0, s |-> 0, v |-> <<>>, ok |-> FALSE]

\* MakeSliceHlo with stride 1: rows [b0, b1), columns [s0, s1).
MakeSliceHlo(t, b0, b1, s0, s1) ==
    IF ~t.ok \/ b0 < 0 \/ b1 < b0 \/ b1 > t.b \/ s0 < 0 \/ s1 < s0 \/ s1 > t.s
    THEN NoPlane
    ELSE LET f(i, j) == t.v[<<b0 + i, s0 + j>>]
         IN Plane(b1 - b0, s1 - s0,
               [p \in Cells(b1 - b0, s1 - s0) |-> f(p[1], p[2])])

\* MakePadHlo with edge padding on the batch axis only.
MakePadHlo(t, padding, low, high) ==
    IF ~t.ok THEN NoPlane
    ELSE LET f(i, j) == IF i < low \/ i >= low + t.b THEN padding
                        ELSE t.v[<<i - low, j>>]
         IN Plane(low + t.b + high, t.s,
               [p \in Cells(low + t.b + high, t.s) |-> f(p[1], p[2])])

\* MakeConcatHlo of two arrays along the space axis.
MakeConcatHlo(t, u) ==
    IF ~t.ok \/ ~u.ok \/ t.b # u.b THEN NoPlane
    ELSE LET f(i, j) == IF j < t.s THEN t.v[<<i, j>>] ELSE u.v[<<i, j - t.s>>]
         IN Plane(t.b, t.s + u.s,
               [p \in Cells(t.b, t.s + u.s) |-> f(p[1], p[2])])

\* MakeReshapeHlo to b rows and s columns: the elements keep their row-major
\* order.
MakeReshapeHlo(b, s, t) ==
    IF ~t.ok \/ b * s # t.b * t.s THEN NoPlane
    ELSE LET f(i, j) == t.v[<<(i * s + j) \div t.s, (i * s + j) % t.s>>]
         IN Plane(b, s,
               [p \in Cells(b, s) |-> f(p[1], p[2])])

\* Lines 316-336: the last low_padding columns of every row but the last,
\* moved one row down.
FirstSlice(activations, low_padding, padding) ==
    MakePadHlo(MakeSliceHlo(activations, 0, activations.b - 1,
                            activations.s - low_padding, activations.s),
               padding, 1, 0)

\* A halo taken from the row itself (the halo property does not hold of it).
HaloRegionOfSameRow(activations, low_padding, halo_size, padding) ==
    MakeSliceHlo(activations, 0, activations.b, 0, halo_size - low_padding)

\* Lines 338-356: the first halo_size - low_padding columns of every row but
\* the first, moved one row up.
HaloRegion(activations, low_padding, halo_size, padding) ==
    MakePadHlo(MakeSliceHlo(activations, 1, activations.b, 0,
                            halo_size - low_padding),
               padding, 0, 1)

\* Lines 358-376: without a halo the padded side is cut off the activations.
ActivationsCut(activations, low_padding, halo_size) ==
    IF halo_size = 0 /\ low_padding # 0
    THEN IF low_padding > 0
         THEN MakeSliceHlo(activations, 0, activations.b, 0,
                           activations.s - low_padding)
         ELSE MakeSliceHlo(activations, 0, activations.b, 0 - low_padding,
                           activations.s)
    ELSE activations

\* Lines 378-386: the two concatenations, for the parts that exist.
HaloConcat(first_slice, cut, halo_region, low_padding, halo_size) ==
    IF low_padding > 0
    THEN IF halo_size - low_padding > 0
         THEN MakeConcatHlo(MakeConcatHlo(first_slice, cut), halo_region)
         ELSE MakeConcatHlo(first_slice, cut)
    ELSE IF halo_size - low_padding > 0
         THEN MakeConcatHlo(cut, halo_region)
         ELSE cut

\* padding is the value of pad_val, or zero when pad_val is null.
HaloDuplicateWithSlice(activations, low_padding, halo_size, padding) ==
    IF ~activations.ok \/ Abs(halo_size - low_padding) > activations.s
    THEN NoPlane
    ELSE HaloConcat(FirstSlice(activations, low_padding, padding),
                    ActivationsCut(activations, low_padding, halo_size),
                    HaloRegion(activations, low_padding, halo_size, padding),
                    low_padding, halo_size)

\* A mask that counts the rows of the whole batch instead of the rows of one
\* original batch row (the mask property does not hold of it).
SliceMaskBitOfWholeBatch(k, new_space_size, num_splits, old_space_size) ==
    CDiv(k, new_space_size) * new_space_size + CMod(k, new_space_size)
        < old_space_size

\* The mask of SelectValidPortion (lines 1227-1236): bit k of the bitmap.
SliceMaskBit(k, new_space_size, num_splits, old_space_size) ==
    LET space_index == CMod(k, new_space_size)
        batch_index == CMod(CDiv(k, new_space_size), num_splits)
    IN batch_index * new_space_size + space_index < old_space_size

\* SelectValidPortion on the plane: the bitmap reshaped to
\* [new_batch_size, new_space_size] selects between the value and select_val.
SelectValidPortion(new_instr, old_batch_size, old_space_size, select_val) ==
    IF ~new_instr.ok \/ old_batch_size = 0 THEN NoPlane
    ELSE IF CMod(new_instr.b, old_batch_size) # 0 THEN NoPlane
    ELSE LET f(i, j) ==
                 IF SliceMaskBit(i * new_instr.s + j, new_instr.s,
                                 CDiv(new_instr.b, old_batch_size),
                                 old_space_size)
                 THEN new_instr.v[<<i, j>>]
                 ELSE select_val
         IN Plane(new_instr.b, new_instr.s,
               [p \in Cells(new_instr.b, new_instr.s) |-> f(p[1], p[2])])

---------------------------------------------------------------------------
(* The computations the pass is run on *)

\* Axis layouts of a convolution with one spatial axis.
Layouts ==
    { ConvolutionDimensionNumbers(0, 2, <<1>>, 1, 2, <<0>>, 0, 2, <<1>>),
      ConvolutionDimensionNumbers(0, 1, <<2>>, 1, 0, <<2>>, 0, 1, <<2>>),
      ConvolutionDimensionNumbers(0, 2, <<1>>, 1, 2, <<0>>, 1, 0, <<2>>) }

\* A shape given the extents of the batch, feature and spatial axes.
ShapeOf(batch_dim, feature_dim, rank, b, f, sp) ==
    [d \in 1..rank |->
        IF d - 1 = batch_dim THEN b ELSE IF d - 1 = feature_dim THEN f ELSE sp]

Convolution(I, lhs, rhs, window, dn, bgc) ==
    HloInstruction("convolution", <<lhs, rhs>>,
                   InferConvolveShape(I[lhs].shape, I[rhs].shape, window, dn,
                                      bgc),
                   <<>>, window, dn, bgc)

KernelParameter(dn, fin, fout, k) ==
    Parameter(ShapeOf(dn.kernel_input_feature_dimension,
                      dn.kernel_output_feature_dimension,
                      2 + Len(dn.kernel_spatial_dimensions), fin, fout, k))

\* activations, kernel and the convolution of the two: handles 1, 2, 3.
ConvGraphOf(dn, b, sp, k, fout, window, bgc) ==
    LET I == << Parameter(ShapeOf(dn.input_batch_dimension,
                                  dn.input_feature_dimension,
                                  2 + Len(dn.input_spatial_dimensions),
                                  b, 1, sp)),
                KernelParameter(dn, 1, fout, k) >>
    IN Append(I, Convolution(I, 1, 2, window, dn, bgc))

ConvGraph(dn, b, sp, k, window, bgc) ==
    ConvGraphOf(dn, b, sp, k, 3, window, bgc)

Elementwise(opcode, shape, operands) ==
    HloInstruction(opcode, operands, shape, <<>>, <<>>, NoDimensionNumbers, 1)

Constant(shape) ==
    HloInstruction("constant", <<>>, shape, <<>>, <<>>, NoDimensionNumbers, 1)

Broadcast(operand, shape, dimensions) ==
    HloInstruction("broadcast", <<operand>>, shape, dimensions, <<>>,
                   NoDimensionNumbers, 1)

\* ShapeInference::InferReduceShape: the reduced axes disappear.
ReduceShape(shape, dimensions) ==
    LET kept == SelectSeq([i \in 1..Len(shape) |-> i],
                          LAMBDA i : ~c_linear_search(dimensions, i - 1))
    IN [k \in 1..Len(kept) |-> shape[kept[k]]]

Reduce(I, operand, init, dimensions) ==
    HloInstruction("reduce", <<operand, init>>,
                   ReduceShape(I[operand].shape, dimensions), dimensions,
                   <<>>, NoDimensionNumbers, 1)

ReduceWindow(I, operand, init, window) ==
    HloInstruction("reduce-window", <<operand, init>>,
                   InferReduceWindowShape(I[operand].shape, window), <<>>,
                   window, NoDimensionNumbers, 1)

\* A window over the spatial axis only.
SpatialWindow(rank, space_dim, w) ==
    [d \in 1..rank |-> IF d - 1 = space_dim THEN w ELSE TrivialWindowDimension]

Tails ==
    {"root", "negate", "copy", "negate copy", "fan out", "broadcast",
     "broadcast first", "broadcast batch", "broadcast space", "reduce",
     "reduce copy", "reduce feature", "add parameter", "add constant",
     "two convolutions", "nested convolution", "reduce window", "add self",
     "backprop filter", "convolve self", "reduce all",
     "reduce window batch", "reduce window low", "reduce window high",
     "reduce window waits", "select and scatter", "reduce batch",
     "reduce window stride", "reduce window misaligned", "two copies",
     "copy and wait", "variadic reduce", "reduce window overlap"}

\* The consumers put below the convolution (handle 3) of a ConvGraph.
WithTail(I, tail) ==
    LET conv == I[3]
        dn == conv.convolution_dimension_numbers
        ob == dn.output_batch_dimension
        of == dn.output_feature_dimension
        os == At(dn.output_spatial_dimensions, 0)
        cs == conv.shape
    IN CASE tail = "root" -> I
         [] tail = "negate" -> Append(I, Elementwise("negate", cs, <<3>>))
         [] tail = "copy" -> Append(I, Elementwise("copy", cs, <<3>>))
         [] tail = "negate copy" ->
                I \o << Elementwise("negate", cs, <<3>>),
                        Elementwise("copy", cs, <<4>>) >>
         [] tail = "fan out" ->
                I \o << Elementwise("copy", cs, <<3>>),
                        Elementwise("negate", cs, <<3>>),
                        Elementwise("add", cs, <<4, 5>>) >>
         [] tail = "broadcast" ->
                I \o << Parameter(<<At(cs, of)>>), Broadcast(4, cs, <<of>>),
                        Elementwise("add", cs, <<3, 5>>) >>
         [] tail = "broadcast first" ->
                I \o << Parameter(<<At(cs, of)>>), Broadcast(4, cs, <<of>>),
                        Elementwise("add", cs, <<5, 3>>) >>
         [] tail = "broadcast batch" ->
                I \o << Parameter(<<At(cs, ob)>>), Broadcast(4, cs, <<ob>>),
                        Elementwise("add", cs, <<3, 5>>) >>
         [] tail = "broadcast space" ->
                I \o << Parameter(<<At(cs, os)>>), Broadcast(4, cs, <<os>>),
                        Elementwise("add", cs, <<3, 5>>) >>
         [] tail = "reduce" ->
                I \o << Constant(<<>>), Reduce(I, 3, 4, <<ob, os>>) >>
         [] tail = "variadic reduce" ->
                I \o << Parameter(cs), Constant(<<>>),
                        [Reduce(I, 3, 5, <<ob, os>>)
                             EXCEPT !.operands = <<4, 3, 5, 5>>] >>
         [] tail = "reduce copy" ->
                I \o << Constant(<<>>), Reduce(I, 3, 4, <<ob, os>>),
                        Elementwise("copy", <<At(cs, of)>>, <<5>>) >>
         [] tail = "reduce feature" ->
                I \o << Constant(<<>>), Reduce(I, 3, 4, <<of>>) >>
         [] tail = "add parameter" ->
                I \o << Parameter(cs), Elementwise("add", cs, <<3, 4>>) >>
         [] tail = "add constant" ->
                I \o << Constant(cs), Elementwise("add", cs, <<3, 4>>) >>
         [] tail = "two convolutions" ->
                I \o << [conv EXCEPT !.operands = <<1, 2>>],
                        Elementwise("add", cs, <<3, 4>>) >>
         [] tail = "nested convolution" ->
                LET I1 == Append(I, KernelParameter(dn, 3, 3, 1))
                    in == [dn EXCEPT
                              !.input_batch_dimension = ob,
                              !.input_feature_dimension = of,
                              !.input_spatial_dimensions = <<os>>]
                IN Append(I1, Convolution(I1, 3, 4,
                                          <<TrivialWindowDimension>>, in, 1))
         [] tail = "reduce window" ->
                I \o << Constant(<<>>),
                        ReduceWindow(I, 3, 4,
                            SpatialWindow(Len(cs), os,
                                WindowDimension(2, 2, 0, 0, 1, 1))) >>
         [] tail = "add self" -> Append(I, Elementwise("add", cs, <<3, 3>>))
         [] tail = "backprop filter" ->
                LET I1 == Append(I, [conv EXCEPT !.operands = <<1, 2>>])
                    filter ==
                        ConvolutionDimensionNumbers(of, ob, <<os>>,
                                                    ob, of, <<os>>,
                                                    0, 2, <<1>>)
                IN Append(I1, Convolution(I1, 3, 4,
                              <<WindowDimension(At(cs, os), 1, 0, 0, 1, 1)>>,
                              filter, 1))
         [] tail = "reduce window stride" ->
                I \o << Constant(<<>>),
                        ReduceWindow(I, 3, 4,
                            [d \in 1..Len(cs) |-> TrivialWindowDimension]),
                        ReduceWindow(I, 3, 4,
                            SpatialWindow(Len(cs), os,
                                WindowDimension(1, 2, 0, 0, 1, 1))) >>
         [] tail = "reduce window misaligned" ->
                I \o << Constant(<<>>),
                        ReduceWindow(I, 3, 4,
                            [d \in 1..Len(cs) |-> TrivialWindowDimension]),
                        ReduceWindow(I, 3, 4,
                            SpatialWindow(Len(cs), os,
                                WindowDimension(2, 2, 0, 0, 1, 1))) >>
         [] tail = "two copies" ->
                I \o << Elementwise("copy", cs, <<3>>),
                        Elementwise("copy", cs, <<3>>),
                        Elementwise("add", cs, <<4, 5>>) >>
         [] tail = "copy and wait" ->
                I \o << Elementwise("copy", cs, <<3>>), Parameter(cs),
                        Elementwise("add", cs, <<3, 5>>) >>
         [] tail = "reduce batch" ->
                I \o << Constant(<<>>), Reduce(I, 3, 4, <<ob>>) >>
         [] tail = "reduce all" ->
                I \o << Constant(<<>>), Reduce(I, 3, 4, <<ob, of, os>>) >>
         [] tail = "reduce window batch" ->
                I \o << Constant(<<>>),
                        ReduceWindow(I, 3, 4,
                            [d \in 1..Len(cs) |->
                                IF d - 1 = ob
                                THEN WindowDimension(2, 1, 0, 1, 1, 1)
                                ELSE TrivialWindowDimension]) >>
         [] tail = "reduce window low" ->
                I \o << Constant(<<>>),
                        ReduceWindow(I, 3, 4,
                            SpatialWindow(Len(cs), os,
                                WindowDimension(2, 1, 1, 0, 1, 1))) >>
         [] tail = "reduce window overlap" ->
                I \o << Constant(<<>>),
                        ReduceWindow(I, 3, 4,
                            SpatialWindow(Len(cs), os,
                                WindowDimension(3, 1, 0, 0, 1, 1))) >>
         [] tail = "reduce window high" ->
                I \o << Constant(<<>>),
                        ReduceWindow(I, 3, 4,
                            SpatialWindow(Len(cs), os,
                                WindowDimension(1, 1, 0, 2, 1, 1))) >>
         [] tail = "reduce window waits" ->
                LET I1 == I \o << Constant(<<>>),
                                  ReduceWindow(I, 3, 4,
                                      SpatialWindow(Len(cs), os,
                                          WindowDimension(1, 1, 0, 1, 1, 1))) >>
                IN I1 \o << Parameter(I1[5].shape),
                            Elementwise("add", I1[5].shape, <<5, 6>>) >>
         [] tail = "select and scatter" ->
                I \o << Parameter(cs), Constant(<<>>),
                        HloInstruction("select-and-scatter", <<4, 3, 5>>, cs,
                                       <<>>,
                                       [d \in 1..Len(cs) |->
                                           TrivialWindowDimension],
                                       NoDimensionNumbers, 1) >>
         [] tail = "convolve self" ->
                LET I1 == Append(I, Elementwise("negate", cs, <<3>>))
                    self ==
                        ConvolutionDimensionNumbers(ob, of, <<os>>,
                                                    of, ob, <<os>>,
                                                    0, 2, <<1>>)
                IN Append(I1, Convolution(I1, 3, 4,
                              <<WindowDimension(At(cs, os), 1, 0, 0, 1, 1)>>,
                              self, 1))

---------------------------------------------------------------------------
(* The pass *)

Limits == {4, kNewBatchSize}
Batches == {1, 2, 4, kNewBatchSize + 1}

\* The computations of the full-pass specification.
Computations ==
    { WithTail(ConvGraph(dn, b, sp, k, <<WindowDimension(k, st, pad, pad, 1, 1)>>, 1), tail) :
          dn \in Layouts, b \in Batches, sp \in (MaxSpace - 1)..MaxSpace,
          k \in 1..MaxKernel, st \in 1..MaxStride, pad \in 0..MaxPad,
          tail \in Tails }

\* The state before the visitor is constructed on one of the computations.
Start(computations) ==
    /\ instrs \in computations
    /\ root_instruction = Len(instrs)
    /\ removed = {}
    /\ convs_to_visit_ = {}
    /\ conv_visitor_list_ = <<>>
    /\ non_propagatable_instrs_ = {}
    /\ batch_to_space_map_ = EmptyMap
    /\ old_to_new_instrs_ = EmptyMap
    /\ instr_to_dim_map_ = EmptyMap
    /\ instr_to_dim_permute_map_ = EmptyMap
    /\ changed_ = FALSE
    /\ limit_on_batch_size_ \in Limits
    /\ propagation_worklist = <<>>
    /\ iteration_count = 0
    /\ conv_index = 1
    /\ pc = "construct"
    /\ clock = 0
    /\ ghost = [instrs |-> instrs, root |-> root_instruction,
                rewritten |-> {}, ever_non_propagatable |-> {},
                step |-> NoStep]
    /\ tensor = <<>>

Init == Start(Computations)

\* Every step of the pass, a turn that passes over its node included, is a
\* step of the program.
Tick == clock' = 1 - clock

\* The instructions with every user before its operands.
InstructionsLastFirst(I) == [i \in 1..Len(I) |-> Len(I) + 1 - i]

\* HloComputation::MakeInstructionPostOrder: operands before their users;
\* the handles of a computation are numbered in that order.
MakeInstructionPostOrder(I) == Handles(I)

\* ConvolutionVisitor::ConvolutionVisitor
Construct ==
    /\ pc = "construct"
    /\ conv_visitor_list_' =
           SelectSeq(MakeInstructionPostOrder(instrs),
                     LAMBDA inst :
                         instrs[inst].opcode = "convolution"
                         /\ IsConvSuitableForSpaceToBatch(
                                instrs, instrs[inst], limit_on_batch_size_))
    /\ convs_to_visit_' = Range(conv_visitor_list_')
    /\ pc' = "run"
    /\ Tick
    /\ UNCHANGED <<graphVars, non_propagatable_instrs_, batch_to_space_map_,
                   old_to_new_instrs_, instr_to_dim_map_,
                   instr_to_dim_permute_map_, changed_, limit_on_batch_size_,
                   propagation_worklist, iteration_count, conv_index, ghost,
                   tensor>>

\* The elements of a set of handles as a sequence.
RECURSIVE Ascending(_)
Ascending(set) ==
    IF set = {} THEN <<>>
    ELSE LET m == CHOOSE x \in set : \A y \in set : x <= y
         IN <<m>> \o Ascending(set \ {m})

\* operand_map of Run (lines 450-456): operand number -> conversion.
RECURSIVE OperandMap(_, _, _, _)
RECURSIVE OperandConverted(_, _, _, _)

OperandMap(S, instr, i, operand_map) ==
    IF i >= Len(S.I[instr].operands) \/ ~S.ok
    THEN [S |-> S, operand_map |-> operand_map]
    ELSE IF At(S.I[instr].operands, i) \in DOMAIN S.o2n
    THEN OperandConverted(BatchToSpace(S, At(S.I[instr].operands, i)), instr,
                          i, operand_map)
    ELSE OperandMap(S, instr, i + 1, operand_map)

OperandConverted(b, instr, i, operand_map) ==
    OperandMap(b.S, instr, i + 1,
               IF b.S.ok THEN MapPut(operand_map, i, b.instr)
               ELSE operand_map)

\* A sweep that leaves the operands as they are (the convergence property
\* does not hold of it).
MappedOperandsKept(S, instr, operand_map) == S

\* Lines 457-459: ReplaceOperandWith for every entry of operand_map.
ReplaceMappedOperands(S, instr, operand_map) ==
    IF \E i \in DOMAIN operand_map :
           S.I[At(S.I[instr].operands, i)].shape # S.I[operand_map[i]].shape
    THEN Fail(S)
    ELSE [S EXCEPT !.I[instr].operands =
             [k \in DOMAIN @ |->
                 IF k - 1 \in DOMAIN operand_map THEN operand_map[k - 1]
                 ELSE @[k]]]

RECURSIVE SweepNonPropagatable(_, _)
RECURSIVE SweepMapped(_, _)

SweepNonPropagatable(S, todo) ==
    IF todo = <<>> \/ ~S.ok THEN S
    ELSE SweepMapped(OperandMap(S, Head(todo), 0, EmptyMap), todo)

SweepMapped(m, todo) ==
    IF ~m.S.ok THEN m.S
    ELSE SweepNonPropagatable(
             ReplaceMappedOperands(m.S, Head(todo), m.operand_map),
             Tail(todo))

\* A return to Run's loop that first sweeps non_propagatable_instrs_.
ReturnedAndSwept(S) ==
    [SweepNonPropagatable(S, Ascending(S.nonprop)) EXCEPT !.nonprop = {}]

\* Lines 439-443: PerformSpaceToBatchOnConvolution has returned and Run's
\* loop goes on to the next convolution; nothing is swept in between.
ReturnedToRun(S) == S

\* A rewrite that ends without reporting the change (the properties of the
\* pass's result do not hold of it).
PerformedUnreported == changed_' = FALSE

\* The end of PerformSpaceToBatchOnConvolution (lines 2199-2201).
Performed == changed_' = TRUE

\* S1: the state after the rewrite of conv; S2: after PropagateOnUsers has
\* dealt with a convolution without users (lines 1318-1326).
ConvStarted(conv, S1, S2) ==
    /\ Commit(IF S2.ok /\ user_count(S1.I, S1.rm, conv) = 0
              THEN ReturnedToRun(S2) ELSE S2)
    /\ ghost' = [ghost EXCEPT
                    !.rewritten = IF S1.ok THEN @ \cup {conv} ELSE @,
                    !.step = NoStep]
    /\ IF ~S2.ok
       THEN /\ pc' = "abort"
            /\ changed_' = FALSE
            /\ UNCHANGED <<propagation_worklist, iteration_count, conv_index>>
       ELSE IF user_count(S1.I, S1.rm, conv) = 0
       THEN /\ pc' = "run"
            /\ Performed
            /\ conv_index' = conv_index + 1
            /\ UNCHANGED <<propagation_worklist, iteration_count>>
       ELSE /\ pc' = "propagate"
            /\ changed_' = FALSE
            /\ propagation_worklist' =
                   << <<conv, At(S2.I[conv].operands, 0)>> >>
            /\ iteration_count' = 0
            /\ UNCHANGED conv_index

ConvRewritten(conv, S1) ==
    ConvStarted(conv, S1,
        IF S1.ok /\ user_count(S1.I, S1.rm, conv) = 0
        THEN ReplaceConverted(BatchToSpace(S1, conv), conv)
        ELSE S1)

\* Run's loop reaches a convolution that is still to visit:
\* PerformSpaceToBatchOnConvolution up to the first turn of PropagateOnUsers.
RunNextConv ==
    /\ Tick
    /\ pc = "run"
    /\ conv_index <= Len(conv_visitor_list_)
    /\ conv_visitor_list_[conv_index] \in convs_to_visit_
    /\ ConvRewritten(conv_visitor_list_[conv_index],
           SpaceToBatchOnConvolution(St, conv_visitor_list_[conv_index]))
    /\ UNCHANGED <<conv_visitor_list_, limit_on_batch_size_, tensor>>

\* Run's loop passes a convolution that propagation has already rewritten.
RunSkipConv ==
    /\ Tick
    /\ pc = "run"
    /\ conv_index <= Len(conv_visitor_list_)
    /\ conv_visitor_list_[conv_index] \notin convs_to_visit_
    /\ conv_index' = conv_index + 1
    /\ ghost' = [ghost EXCEPT !.step = NoStep]
    /\ UNCHANGED <<graphVars, tableVars, changed_, limit_on_batch_size_,
                   propagation_worklist, iteration_count, pc, tensor>>

\* r: the outcome of the turn on <<node, parent>>.
TurnDone(node, parent, r) ==
    /\ Commit(IF r.S.ok /\ r.wl = <<>> THEN ReturnedToRun(r.S) ELSE r.S)
    /\ propagation_worklist' = r.wl
    /\ iteration_count' =
           IF r.kind = "skip" THEN iteration_count ELSE iteration_count + 1
    /\ ghost' = [ghost EXCEPT
                    !.ever_non_propagatable = @ \cup NotReadyOf(r.ev),
                    !.rewritten =
                        @ \cup {c \in {node} :
                                   /\ r.kind # "skip"
                                   /\ iteration_count # 0
                                   /\ r.S.I[node].opcode = "convolution"
                                   /\ node \in DOMAIN r.S.o2n},
                    !.step = [node |-> node, parent |-> parent,
                              kind |-> r.kind, needs |-> r.needs,
                              ev |-> r.ev]]
    /\ IF ~r.S.ok
       THEN pc' = "abort" /\ UNCHANGED <<changed_, conv_index>>
       ELSE IF r.wl = <<>>
       THEN pc' = "run" /\ Performed /\ conv_index' = conv_index + 1
       ELSE UNCHANGED <<pc, changed_, conv_index>>

\* One turn of the worklist loop of PropagateOnUsers; when the worklist
\* runs empty PerformSpaceToBatchOnConvolution returns to Run.
PropagateStep ==
    /\ Tick
    /\ pc = "propagate"
    /\ propagation_worklist # <<>>
    /\ TurnDone(Head(propagation_worklist)[1], Head(propagation_worklist)[2],
                WorklistTurn(St, Head(propagation_worklist)[1],
                             Head(propagation_worklist)[2],
                             Tail(propagation_worklist), iteration_count,
                             limit_on_batch_size_))
    /\ UNCHANGED <<conv_visitor_list_, limit_on_batch_size_, tensor>>

Swept(S1) ==
    /\ Commit(IF S1.ok THEN [S1 EXCEPT !.nonprop = {}] ELSE S1)
    /\ pc' = IF S1.ok THEN "done" ELSE "abort"

\* The end of Run (lines 444-462), after the last convolution.
RunSweep ==
    /\ Tick
    /\ pc = "run"
    /\ conv_index > Len(conv_visitor_list_)
    /\ Swept(SweepNonPropagatable([St EXCEPT !.convs = {}],
                                  Ascending(non_propagatable_instrs_)))
    /\ conv_visitor_list_' = <<>>
    /\ ghost' = [ghost EXCEPT !.step = NoStep]
    /\ UNCHANGED <<changed_, limit_on_batch_size_, propagation_worklist,
                   iteration_count, conv_index, tensor>>

Next ==
    \/ Construct
    \/ RunNextConv
    \/ RunSkipConv
    \/ PropagateStep
    \/ RunSweep

Spec == Init /\ [][Next]_vars

\* The pass is one sequential program: until it has returned or aborted it
\* takes its next step.
Running == pc \notin {"done", "abort"} /\ Tick
SpecLive == Spec /\ WF_clock(Running)

---------------------------------------------------------------------------
(* The legality check on its own: one convolution of any window *)

\* Layouts with no, one and two spatial axes.
LegalityLayouts ==
    { ConvolutionDimensionNumbers(0, 1, <<>>, 0, 1, <<>>, 0, 1, <<>>),
      ConvolutionDimensionNumbers(0, 2, <<1>>, 1, 2, <<0>>, 0, 2, <<1>>),
      ConvolutionDimensionNumbers(0, 3, <<1, 2>>, 2, 3, <<0, 1>>,
                                  0, 3, <<1, 2>>) }

LegalityBatches == {1, 2, 3, 4, kNewBatchSize, kNewBatchSize + 1}

\* The window of a convolution whose last spatial axis has window w.
LegalityWindow(dn, k, w) ==
    [j \in 1..Len(dn.input_spatial_dimensions) |->
        IF j = Len(dn.input_spatial_dimensions) THEN w
        ELSE WindowDimension(k, 1, 0, 0, 1, 1)]

LegalityComputations ==
    { ConvGraphOf(dn, b * bgc, sp, k, 2 * bgc,
                  LegalityWindow(dn, k,
                      WindowDimension(k, st, lo, hi, wdil, bdil)),
                  bgc) :
          dn \in LegalityLayouts, b \in LegalityBatches,
          sp \in (MaxSpace - 3)..MaxSpace, k \in 1..MaxKernel,
          st \in 1..MaxStride, lo \in 0..MaxPad, hi \in 0..MaxPad,
          wdil \in 1..2, bdil \in 1..MaxDilation, bgc \in 1..2 }

InitLegal == Start(LegalityComputations)

NextLegal == Construct

SpecLegal == InitLegal /\ [][NextLegal]_vars

---------------------------------------------------------------------------
(* The initial rewrite: one convolution of any window, read by nothing or  *)
(* by a reduce-window some elementwise operations further down             *)

\* <<d, rw>>: d negations below the convolution, then a reduce-window of
\* size and stride rw on the output spatial axis; rw = 1: no consumer.
RewriteTails == {<<0, 1>>, <<0, 2>>, <<0, 3>>,
                 <<kReduceWindowSearchDepth - 1, 2>>,
                 <<kReduceWindowSearchDepth, 2>>}

WithReduceWindowBelow(I, d, rw) ==
    LET conv == I[3]
        cs == conv.shape
        os == At(conv.convolution_dimension_numbers.output_spatial_dimensions,
                 0)
        red == ReduceWindow(I, 3, 3,
                   SpatialWindow(Len(cs), os,
                                 WindowDimension(rw, rw, 0, 0, 1, 1)))
    IN IF rw = 1 THEN I
       ELSE I \o [i \in 1..d |-> Elementwise("negate", cs, <<2 + i>>)]
              \o << Constant(<<>>),
                    [red EXCEPT !.operands = <<3 + d, 4 + d>>] >>

RewriteComputations ==
    { WithReduceWindowBelow(
          ConvGraph(dn, b, sp, k,
                    <<WindowDimension(k, st, lo, hi, 1, bdil)>>, 1),
          t[1], t[2]) :
          dn \in Layouts, b \in {1, 2, 4}, sp \in (MaxSpace - 1)..MaxSpace,
          k \in 1..MaxKernel, st \in 1..MaxStride, lo \in 0..MaxPad,
          hi \in 0..MaxPad, bdil \in 1..MaxDilation, t \in RewriteTails }

InitRewrite == Start(RewriteComputations)

\* One convolution: Run's loop never passes over a rewritten one.
NextRewrite ==
    \/ Construct
    \/ RunNextConv
    \/ PropagateStep
    \/ RunSweep

SpecRewrite == InitRewrite /\ [][NextRewrite]_vars

---------------------------------------------------------------------------
(* The value-level operators on their own *)

\* The pass's variables while only array values are computed.
NoPass ==
    /\ instrs = <<>>
    /\ root_instruction = 0
    /\ removed = {}
    /\ convs_to_visit_ = {}
    /\ conv_visitor_list_ = <<>>
    /\ non_propagatable_instrs_ = {}
    /\ batch_to_space_map_ = EmptyMap
    /\ old_to_new_instrs_ = EmptyMap
    /\ instr_to_dim_map_ = EmptyMap
    /\ instr_to_dim_permute_map_ = EmptyMap
    /\ changed_ = FALSE
    /\ limit_on_batch_size_ = kNewBatchSize
    /\ propagation_worklist = <<>>
    /\ iteration_count = 0
    /\ conv_index = 1
    /\ clock = 0
    /\ ghost = [instrs |-> <<>>, root |-> 0, rewritten |-> {},
                ever_non_propagatable |-> {}, step |-> NoStep]

passVars == <<graphVars, tableVars, changed_, limit_on_batch_size_,
              propagation_worklist, iteration_count, conv_index, clock,
              ghost>>

\* An array whose cells all hold different values, none of them a padding
\* value.
Labelled(b, s) ==
    LET f(i, j) == i * s + j + 1
    IN Plane(b, s,
               [p \in Cells(b, s) |-> f(p[1], p[2])])

PadValues == {0, -1}
SplitCounts == {1, 2, 4, kNewBatchSize}
OldBatches == {1, 2, 3, 4}

\* Activations [old_batch_size, num_splits * split] about to be split
\* (low_padding 0), and split activations [batch, split] about to get a halo
\* with any low_padding.
InitHalo ==
    /\ NoPass
    /\ \E old_batch_size \in OldBatches, num_splits \in SplitCounts,
          split \in 1..MaxSpace, halo_size \in 0..MaxKernel,
          low_padding \in (0 - MaxPad)..MaxPad, padding \in PadValues :
          /\ old_batch_size * num_splits <= kNewBatchSize
          /\ tensor = [old_batch_size |-> old_batch_size,
                       num_splits |-> num_splits, split |-> split,
                       halo_size |-> halo_size, low_padding |-> low_padding,
                       padding |-> padding,
                       activations |->
                           Labelled(old_batch_size, num_splits * split),
                       reshaped |-> NoPlane, result |-> NoPlane]
    /\ pc \in {"split", "halo"}
    /\ pc = "split" => tensor.low_padding = 0 /\ tensor.padding = 0

\* Lines 2105-2123: the reshape that grows the batch, then the halo.
SplitStep(batch_increased_reshape) ==
    /\ tensor' = [tensor EXCEPT
                     !.reshaped = batch_increased_reshape,
                     !.result = HaloDuplicateWithSlice(
                                    batch_increased_reshape, 0,
                                    tensor.halo_size, 0)]
    /\ pc' = IF tensor'.result.ok THEN "split done" ELSE "abort"

SplitActivations ==
    /\ pc = "split"
    /\ SplitStep(MakeReshapeHlo(tensor.num_splits * tensor.old_batch_size,
                                tensor.split, tensor.activations))
    /\ UNCHANGED passVars

\* HaloDuplicateWithSlice on activations that are split already.
HaloStep(split_activations) ==
    /\ tensor' = [tensor EXCEPT
                     !.reshaped = split_activations,
                     !.result = HaloDuplicateWithSlice(
                                    split_activations, tensor.low_padding,
                                    tensor.halo_size, tensor.padding)]
    /\ pc' = IF tensor'.result.ok THEN "halo done" ELSE "abort"

HaloDuplicate ==
    /\ pc = "halo"
    /\ HaloStep(Labelled(tensor.old_batch_size * tensor.num_splits,
                         tensor.split))
    /\ UNCHANGED passVars

NextHalo == SplitActivations \/ HaloDuplicate

SpecHalo == InitHalo /\ [][NextHalo]_vars

\* A rewritten value [new_batch_size, new_space_size] and the original's
\* batch and space extents.
InitMask ==
    /\ NoPass
    /\ \E new_batch_size \in 1..kNewBatchSize, new_space_size \in 1..MaxSpace,
          old_batch_size \in OldBatches,
          old_space_size \in 0..(kNewBatchSize * MaxSpace),
          select_val \in PadValues :
          /\ old_space_size <= new_batch_size * new_space_size + 1
          /\ tensor = [old_batch_size |-> old_batch_size,
                       old_space_size |-> old_space_size,
                       select_val |-> select_val,
                       new_instr |-> Labelled(new_batch_size, new_space_size),
                       result |-> NoPlane]
    /\ pc = "select"

SelectValid ==
    /\ pc = "select"
    /\ tensor' = [tensor EXCEPT
                     !.result = SelectValidPortion(
                                    tensor.new_instr, tensor.old_batch_size,
                                    tensor.old_space_size, tensor.select_val)]
    /\ pc' = IF tensor'.result.ok THEN "select done" ELSE "abort"
    /\ UNCHANGED passVars

NextMask == SelectValid

SpecMask == InitMask /\ [][NextMask]_vars

---------------------------------------------------------------------------
(* The rewrite on array values *)

RECURSIVE SumFrom(_, _)
SumFrom(s, i) == IF i > Len(s) THEN 0 ELSE s[i] + SumFrom(s, i + 1)

\* MakePadHlo with edge padding on the space axis.
MakePadSpaceHlo(t, padding, low, high) ==
    IF ~t.ok \/ low < 0 \/ high < 0 THEN NoPlane
    ELSE LET f(i, j) == IF j < low \/ j >= low + t.s THEN padding
                        ELSE t.v[<<i, j - low>>]
         IN Plane(t.b, low + t.s + high,
               [p \in Cells(t.b, low + t.s + high) |-> f(p[1], p[2])])

\* The cell at position q of row i of an array that is base-dilated and
\* padded with outside: the holes and the padding hold outside.
WindowCell(t, i, q, w, outside) ==
    LET d == q - w.padding_low
    IN IF d >= 0 /\ d % w.base_dilation = 0 /\ d \div w.base_dilation < t.s
       THEN t.v[<<i, d \div w.base_dilation>>]
       ELSE outside

\* A convolution of one input and one output feature over the space axis:
\* kernel is the sequence of its weights.
ConvolveHlo(lhs, kernel, w) ==
    IF ~lhs.ok THEN NoPlane
    ELSE LET f(i, o) ==
                 SumFrom([j \in 1..Len(kernel) |->
                             kernel[j]
                             * WindowCell(lhs, i,
                                          o * w.stride
                                          + (j - 1) * w.window_dilation,
                                          w, 0)], 1)
         IN Plane(lhs.b, WindowOutputSize(lhs.s, w),
               [p \in Cells(lhs.b, WindowOutputSize(lhs.s, w)) |-> f(p[1], p[2])])

\* A reduce-window that adds up its window, over the space axis.
ReduceWindowHlo(operand, init, w) ==
    IF ~operand.ok THEN NoPlane
    ELSE LET f(i, o) ==
                 init + SumFrom([j \in 1..w.size |->
                                    WindowCell(operand, i,
                                               o * w.stride
                                               + (j - 1) * w.window_dilation,
                                               w, init)], 1)
         IN Plane(operand.b, WindowOutputSize(operand.s, w),
               [p \in Cells(operand.b, WindowOutputSize(operand.s, w)) |-> f(p[1], p[2])])

\* A reduce that adds up the batch and the space axis.
ReduceHlo(operand, init) ==
    IF ~operand.ok THEN NoPlane
    ELSE LET row(i) ==
                 SumFrom([j \in 1..operand.s |-> operand.v[<<i, j - 1>>]], 1)
             total == init + SumFrom([i \in 1..operand.b |-> row(i - 1)], 1)
             f(i, j) == total
         IN Plane(1, 1,
               [p \in Cells(1, 1) |-> f(p[1], p[2])])

NegateHlo(operand) ==
    IF ~operand.ok THEN NoPlane
    ELSE LET f(i, j) == 0 - operand.v[<<i, j>>]
         IN Plane(operand.b, operand.s,
               [p \in Cells(operand.b, operand.s) |-> f(p[1], p[2])])

\* Lines 2062-2104: the padding that is materialised before the split.
PaddedActivations(activations, c, num_splits, spatial_split_size) ==
    LET pad_size == spatial_split_size * num_splits - c.spatial_size
    IN IF pad_size # 0 \/ c.inherent_low_padding # 0
          \/ c.inherent_high_padding # 0
       THEN MakePadSpaceHlo(activations, 0,
                            IF c.base_dilation_factor = 1
                            THEN c.inherent_low_padding ELSE 0,
                            c.inherent_high_padding + pad_size)
       ELSE activations

\* Lines 2105-2185: the split activations with their halo, convolved with the
\* window of the new convolution, and the cells beyond the original extent
\* set to zero.
RewrittenConvolution(activations, kernel, w, c, old_batch_size, spatial_split_size, old_space_size) ==
    LET num_splits == CDiv(kNewBatchSize, old_batch_size)
        batch_increased_reshape ==
            MakeReshapeHlo(num_splits * old_batch_size, spatial_split_size,
                           PaddedActivations(activations, c, num_splits,
                                             spatial_split_size))
        new_window == [w EXCEPT !.padding_high = c.high_padding_for_conv,
                                !.padding_low = c.low_padding_for_conv]
    IN SelectValidPortion(
           ConvolveHlo(HaloDuplicateWithSlice(batch_increased_reshape, 0,
                                              c.halo_size, 0),
                       kernel, new_window),
           old_batch_size, old_space_size, 0)

\* BatchToSpace (lines 1265-1313) on the plane: the splits of a row are put
\* back one after the other and the row is cut to the original extent.
BatchToSpaceValue(new_instr, old_batch_size, old_space_size) ==
    IF ~new_instr.ok THEN NoPlane
    ELSE LET reshape ==
                 MakeReshapeHlo(old_batch_size,
                                new_instr.s
                                * CDiv(new_instr.b, old_batch_size),
                                new_instr)
         IN MakeSliceHlo(reshape, 0, reshape.b, 0, old_space_size)

\* Propagate on a reduce (lines 922-955).
ReduceRewritten(first_operand, old_batch_size, old_space_size, init_val) ==
    ReduceHlo(SelectValidPortion(first_operand, old_batch_size,
                                 old_space_size, init_val),
              init_val)

\* The halo of Propagate on a reduce-window (lines 978-998).
ReduceWindowHalo(selected, init_val, w) ==
    LET new_space_size == selected.s
        last_overlap_point == CDiv(new_space_size - 1, w.stride) * w.stride
        halo_size == last_overlap_point + w.size - new_space_size
    IN IF selected.ok /\ halo_size > 0
       THEN HaloDuplicateWithSlice(selected, 0, halo_size, init_val)
       ELSE selected

\* Propagate on a reduce-window (lines 957-1023 and 1180-1203).
ReduceWindowRewritten(first_operand, old_batch_size, old_space_size, init_val, w) ==
    ReduceWindowHlo(
        ReduceWindowHalo(SelectValidPortion(first_operand, old_batch_size,
                                            old_space_size, init_val),
                         init_val, w),
        init_val,
        [w EXCEPT !.padding_high = 0, !.padding_low = 0])

\* The layout [batch, space, feature] of activations and output.
ValueLayout == ConvolutionDimensionNumbers(0, 2, <<1>>, 1, 2, <<0>>, 0, 2, <<1>>)

ValueTails == {"root", "negate", "reduce", "reduce window"}
ValueBatches == {1, 2, 4, kNewBatchSize}

\* The windows of the reduce-window below the convolution.
ReduceWindows ==
    { WindowDimension(size, st, 0, hi, wdil, 1) :
          size \in 1..MaxWindow, st \in 1..MaxStride, hi \in 0..MaxPad,
          wdil \in 1..MaxDilation }

\* Kernel weights that keep the cells of a window apart in the sum.
KernelWeights(k) == [j \in 1..k |-> 100 ^ (j - 1)]

\* A convolution of one feature and the consumer below it: the last handle.
ValueComputation(b, sp, k, window, tail, w) ==
    LET I == ConvGraphOf(ValueLayout, b, sp, k, 1, <<window>>, 1)
    IN IF tail = "reduce window"
       THEN I \o << Constant(<<>>),
                    ReduceWindow(I, 3, 4, SpatialWindow(3, 1, w)) >>
       ELSE WithTail(I, tail)

\* A convolution the pass rewrites, its consumer, and the values of its
\* activations and kernel; the reduce-window's initial value is zero.
InitValue ==
    /\ NoPass
    /\ \E b \in ValueBatches, sp \in (MaxSpace - 2)..MaxSpace,
          k \in 1..MaxKernel, st \in 1..MaxStride, lo \in 0..MaxPad,
          hi \in 0..MaxPad, bdil \in 1..MaxDilation, tail \in ValueTails,
          w \in ReduceWindows :
          /\ tail # "reduce window" => w = WindowDimension(1, 1, 0, 0, 1, 1)
          /\ tensor = [I |-> ValueComputation(b, sp, k,
                                 WindowDimension(k, st, lo, hi, 1, bdil),
                                 tail, w),
                       tail |-> tail,
                       activations |-> Labelled(b, sp),
                       kernel |-> KernelWeights(k),
                       init_val |-> 0,
                       original |-> NoPlane, rewritten |-> NoPlane,
                       propagated |-> FALSE]
          /\ IsConvSuitableForSpaceToBatch(tensor.I, tensor.I[3],
                                           kNewBatchSize)
    /\ pc = "original"

\* The value of the consumer, given the value of the convolution.
TailValue(operand, tail, init_val, w) ==
    CASE tail = "root" -> operand
      [] tail = "negate" -> NegateHlo(operand)
      [] tail = "reduce" -> ReduceHlo(operand, init_val)
      [] tail = "reduce window" -> ReduceWindowHlo(operand, init_val, w)

\* The output of the computation as it was written.
OriginalOutput(t) ==
    TailValue(ConvolveHlo(t.activations, t.kernel, t.I[3].window[1]),
              t.tail, t.init_val, At(t.I[Len(t.I)].window, 1))

EvaluateOriginal ==
    /\ pc = "original"
    /\ tensor' = [tensor EXCEPT !.original = OriginalOutput(tensor)]
    /\ pc' = "rewrite"
    /\ UNCHANGED passVars

\* new_conv: the value of the rewritten convolution. A consumer the pass
\* propagates through is rewritten and converted back after it (the reduce
\* needs no conversion); any other consumer reads the converted convolution.
RewrittenTail(t, new_conv, propagated) ==
    LET old_batch_size == At(t.I[3].shape, 0)
        old_space_size == At(t.I[3].shape, 1)
        w == At(t.I[Len(t.I)].window, 1)
    IN IF ~propagated
       THEN TailValue(BatchToSpaceValue(new_conv, old_batch_size,
                                        old_space_size),
                      t.tail, t.init_val, w)
       ELSE IF t.tail = "negate"
       THEN BatchToSpaceValue(NegateHlo(new_conv), old_batch_size,
                              old_space_size)
       ELSE IF t.tail = "reduce"
       THEN ReduceRewritten(new_conv, old_batch_size, old_space_size,
                            t.init_val)
       ELSE BatchToSpaceValue(
                ReduceWindowRewritten(new_conv, old_batch_size,
                                      old_space_size, t.init_val, w),
                old_batch_size, At(t.I[Len(t.I)].shape, 1))

\* S1: the pass's state after the rewrite of the convolution (handle 3).
RewrittenWith(t, S1, c, propagated) ==
    /\ tensor' =
           [t EXCEPT
               !.propagated = propagated,
               !.rewritten =
                   RewrittenTail(t,
                       RewrittenConvolution(
                           t.activations, t.kernel, t.I[3].window[1], c,
                           At(t.I[1].shape, 0),
                           SpatialSplitSize(t.I, {}, 3, c,
                               CDiv(kNewBatchSize, At(t.I[1].shape, 0)), 1),
                           At(t.I[3].shape, 1)),
                       propagated)]
    /\ pc' = IF S1.ok /\ tensor'.rewritten.ok THEN "evaluated" ELSE "abort"

\* The output of the computation the pass leaves behind.
EvaluateRewritten ==
    /\ pc = "rewrite"
    /\ LET S0 == [St EXCEPT !.I = tensor.I, !.root = Len(tensor.I)]
           S1 == SpaceToBatchOnConvolution(S0, 3)
       IN RewrittenWith(tensor, S1,
              GetConvolutionDetails(
                  tensor.I, tensor.I[3],
                  tensor.I[3].convolution_dimension_numbers),
              /\ tensor.tail # "root"
              /\ S1.ok
              /\ SupportedOpForPropagation(S1, Len(tensor.I), 3).result)
    /\ UNCHANGED passVars

NextValue == EvaluateOriginal \/ EvaluateRewritten

SpecValue == InitValue /\ [][NextValue]_vars

---------------------------------------------------------------------------
(* Properties *)

\* C1: the visitor's constructor puts a convolution on its list exactly when
\* the convolution has a spatial axis, batch_group_count 1, window dilation 1
\* on the last spatial axis, a base dilation that is 1 or else comes with
\* stride 1 and either (low padding 0, kernel size 1) or (kernel size =
\* base dilation + 1, low padding = base dilation - 1), a batch size that is
\* at most the limit and divides 8, and a halo size that is at most
\* ceil(spatial_size / num_splits), num_splits = 8 / batch size.
C1_LegalIffConditions ==
    pc = "run" =>
        \A h \in DOMAIN ghost.instrs :
            ghost.instrs[h].opcode = "convolution" =>
                LET conv == ghost.instrs[h]
                    dn == conv.convolution_dimension_numbers
                    n == Len(dn.input_spatial_dimensions)
                    w == conv.window[n]
                    batch == At(ghost.instrs[conv.operands[1]].shape,
                                dn.input_batch_dimension)
                    input == At(ghost.instrs[conv.operands[1]].shape,
                                dn.input_spatial_dimensions[n])
                    kernel == At(ghost.instrs[conv.operands[2]].shape,
                                 dn.kernel_spatial_dimensions[n])
                    spatial_size ==
                        input
                        + (IF w.base_dilation > 1 THEN 0 ELSE w.padding_low)
                        + w.padding_high
                    halo_size ==
                        Max(kernel - w.stride - (w.base_dilation - 1), 0)
                    num_splits == 8 \div batch
                IN h \in Range(conv_visitor_list_) <=>
                       /\ n >= 1
                       /\ conv.batch_group_count = 1
                       /\ w.window_dilation = 1
                       /\ w.base_dilation # 1 =>
                              /\ w.stride = 1
                              /\ \/ w.padding_low = 0 /\ kernel = 1
                                 \/ /\ kernel = w.base_dilation + 1
                                    /\ w.padding_low = w.base_dilation - 1
                       /\ batch <= limit_on_batch_size_
                       /\ 8 % batch = 0
                       /\ \E q \in 0..spatial_size :
                              /\ q * num_splits >= spatial_size
                              /\ (q - 1) * num_splits < spatial_size
                              /\ halo_size <= q

\* A dilated convolution with a halo is accepted.
C1_Witness ==
    /\ pc = "run"
    /\ conv_visitor_list_ = <<3>>
    /\ instrs[3].window[Len(instrs[3].window)].base_dilation = 2
    /\ instrs[3].window[Len(instrs[3].window)].size = 3

\* C2: when the pass has run to its end, it returns true exactly when a
\* convolution of the computation passed the legality check and was
\* rewritten; when no convolution passes, the computation is as it was
\* before the pass and the pass returns false.
C2_ChangedIffRewritten ==
    pc = "done" =>
        LET legal == {h \in DOMAIN ghost.instrs :
                         /\ ghost.instrs[h].opcode = "convolution"
                         /\ IsConvSuitableForSpaceToBatch(
                                ghost.instrs, ghost.instrs[h],
                                limit_on_batch_size_)}
        IN /\ changed_ <=> (legal \cap ghost.rewritten # {})
           /\ legal = {} =>
                  /\ instrs = ghost.instrs
                  /\ root_instruction = ghost.root
                  /\ removed = {}
                  /\ changed_ = FALSE

\* The pass ends having rewritten a convolution and says so.
C2_Witness ==
    /\ pc = "done"
    /\ changed_
    /\ 3 \in ghost.rewritten
    /\ instrs # ghost.instrs

C4_NumericalEquivalence ==
    pc = "evaluated" => tensor.rewritten = tensor.original

\* A reduce-window with high padding and no dilation is propagated through,
\* and the output that is left differs from the original one.
C4_Witness ==
    /\ pc = "evaluated"
    /\ tensor.tail = "reduce window"
    /\ tensor.propagated
    /\ At(tensor.I[Len(tensor.I)].window, 1).window_dilation = 1
    /\ tensor.rewritten.b = tensor.original.b
    /\ tensor.rewritten.s = tensor.original.s
    /\ tensor.rewritten # tensor.original

\* C5: halo duplication with low_padding 0 and halo_size h > 0 on split
\* activations of per-split extent S gives rows of extent S + h; columns
\* 0..S-1 of every row are unchanged, columns S..S+h-1 of every row but the
\* last are columns 0..h-1 of the next row, and those of the last row hold
\* the pad value. So, after the reshape that splits the activations, row
\* ob * num_splits + i with i not the last split of ob holds the unsplit
\* activations of batch row ob at offsets i*S .. i*S + S + h - 1.
C5_HaloDuplication ==
    (pc \in {"split done", "halo done"}
         /\ tensor.low_padding = 0 /\ tensor.halo_size > 0) =>
        LET S == tensor.split
            h == tensor.halo_size
            rows == tensor.old_batch_size * tensor.num_splits
            in == tensor.reshaped
            out == tensor.result
        IN /\ out.b = rows
           /\ out.s = S + h
           /\ \A r \in 0..(rows - 1) :
                  /\ \A j \in 0..(S - 1) : out.v[<<r, j>>] = in.v[<<r, j>>]
                  /\ \A j \in 0..(h - 1) :
                         out.v[<<r, S + j>>] =
                             IF r < rows - 1 THEN in.v[<<r + 1, j>>]
                             ELSE tensor.padding
           /\ pc = "split done" =>
                  \A ob \in 0..(tensor.old_batch_size - 1),
                     i \in 0..(tensor.num_splits - 2),
                     j \in 0..(S + h - 1) :
                      out.v[<<ob * tensor.num_splits + i, j>>]
                          = tensor.activations.v[<<ob, i * S + j>>]

\* Two batch rows of 16 split in four with a halo of 2.
C5_Witness ==
    /\ pc = "split done"
    /\ tensor.old_batch_size = 2
    /\ tensor.num_splits = 4
    /\ tensor.split = 4
    /\ tensor.halo_size = 2
    /\ tensor.result.s = 6

\* C6: SelectValidPortion keeps cell (b, s) of the [new_batch, new_space]
\* plane exactly when (b mod num_splits) * new_space_size + s <
\* old_space_size, num_splits = new_batch_size / old_batch_size, and puts the
\* fill value in every other cell; so of the num_splits * new_space_size
\* positions of each original batch row exactly those inside the original
\* space extent keep their value.
C6_SelectValidPortionMask ==
    pc = "select done" =>
        LET new == tensor.new_instr
            out == tensor.result
            num_splits == new.b \div tensor.old_batch_size
        IN /\ out.b = new.b /\ out.s = new.s
           /\ \A b \in 0..(new.b - 1), s \in 0..(new.s - 1) :
                  out.v[<<b, s>>] =
                      IF (b % num_splits) * new.s + s < tensor.old_space_size
                      THEN new.v[<<b, s>>]
                      ELSE tensor.select_val
           /\ \A ob \in 0..(tensor.old_batch_size - 1),
                 pos \in 0..(num_splits * new.s - 1) :
                  LET cell == <<ob * num_splits + pos \div new.s, pos % new.s>>
                  IN out.v[cell] =
                         IF pos < tensor.old_space_size THEN new.v[cell]
                         ELSE tensor.select_val

\* Two original batch rows in eight rows; the original extent ends inside
\* the third split of each.
C6_Witness ==
    /\ pc = "select done"
    /\ tensor.old_batch_size = 2
    /\ tensor.new_instr.b = 8
    /\ tensor.new_instr.s = 3
    /\ tensor.old_space_size = 7
    /\ tensor.result.v[<<6, 0>>] = tensor.new_instr.v[<<6, 0>>]
    /\ tensor.result.v[<<6, 1>>] = tensor.select_val

\* C7: when the pass has run to its end, every instruction that was ever put
\* in non_propagatable_instrs_ either has been propagated since (it has an
\* entry in old_to_new_instrs_) or reads, in the place of every operand that
\* has an entry in old_to_new_instrs_, that operand's BatchToSpace
\* conversion; and no instruction of the original computation that is still
\* part of it reads a value kept in the batched layout.
C7_Convergence ==
    pc = "done" =>
        /\ non_propagatable_instrs_ = {}
        /\ \A n \in ghost.ever_non_propagatable :
               \/ n \in DOMAIN old_to_new_instrs_
               \/ \A i \in DOMAIN ghost.instrs[n].operands :
                      ghost.instrs[n].operands[i] \in DOMAIN old_to_new_instrs_
                          => /\ ghost.instrs[n].operands[i]
                                    \in DOMAIN batch_to_space_map_
                             /\ instrs[n].operands[i] =
                                    batch_to_space_map_[
                                        ghost.instrs[n].operands[i]]
        /\ \A n \in DOMAIN ghost.instrs :
               (n \notin removed /\ n \notin DOMAIN old_to_new_instrs_) =>
                   \A i \in DOMAIN instrs[n].operands :
                       instrs[n].operands[i]
                           \notin DOMAIN instr_to_dim_permute_map_

\* An instruction was left in the set, and the sweep at the end of Run
\* has given it the conversion of its rewritten operand.
C7_Witness ==
    /\ pc = "done"
    /\ \E n \in ghost.ever_non_propagatable :
           /\ n \notin DOMAIN old_to_new_instrs_
           /\ \E i \in DOMAIN instrs[n].operands :
                  /\ ghost.instrs[n].operands[i] \in DOMAIN batch_to_space_map_
                  /\ instrs[n].operands[i] # ghost.instrs[n].operands[i]

\* C8: in a turn of the worklist loop, a user of the rewritten node that
\* fails SupportedOpForPropagation gets the node's BatchToSpace conversion
\* in exactly its operand slots that held the node and is otherwise left as
\* it was; it gets no entry in old_to_new_instrs_, is not on the worklist
\* (neither as node nor as parent, so its users are not visited through it);
\* every other user of the node keeps its operands and is classified as it
\* is classified in the state the loop started from.
C8_UnsupportedUserOnly ==
    [][\A k \in DOMAIN ghost'.step.ev :
           LET e == ghost'.step.ev[k]
               before == IF iteration_count = 0 THEN St
                         ELSE Propagate(St, e.node, ghost'.step.parent,
                                        limit_on_batch_size_).S
           IN e.kind = "unsupported" =>
                  /\ e.node \in DOMAIN batch_to_space_map_'
                  /\ e.conversion = batch_to_space_map_'[e.node]
                  /\ instrs'[e.user] =
                         [instrs[e.user] EXCEPT !.operands =
                             [i \in DOMAIN instrs[e.user].operands |->
                                 IF instrs[e.user].operands[i] = e.node
                                 THEN e.conversion
                                 ELSE instrs[e.user].operands[i]]]
                  /\ e.user \notin DOMAIN old_to_new_instrs_'
                  /\ \A w \in DOMAIN propagation_worklist' :
                         /\ propagation_worklist'[w][1] # e.user
                         /\ propagation_worklist'[w][2] # e.user
                  /\ \A u \in Range(Users(instrs, removed, e.user)) :
                         /\ instrs'[u] = instrs[u]
                         /\ u \notin DOMAIN old_to_new_instrs_'
                                     \ DOMAIN old_to_new_instrs_
                  /\ \A j \in DOMAIN ghost'.step.ev :
                         LET o == ghost'.step.ev[j]
                             sup == SupportedOpForPropagation(before, o.user,
                                                              o.node)
                             can == CanPropagate(sup.S, o.user, o.node,
                                                 limit_on_batch_size_)
                         IN o.kind # "unsupported" =>
                                /\ instrs'[o.user] = instrs[o.user]
                                /\ sup.result
                                /\ can.result <=> o.kind = "ready"
      ]_vars

\* One turn has met an unsupported user before a user that is ready.
C8_Witness ==
    /\ Len(ghost.step.ev) >= 2
    /\ ghost.step.ev[1].kind = "unsupported"
    /\ ghost.step.ev[2].kind = "ready"
    /\ instrs[ghost.step.ev[1].user].operands
           # ghost.instrs[ghost.step.ev[1].user].operands

\* C9: in a turn of the worklist loop whose Propagate reports that no
\* further propagation is needed (which it does for a reduce and for a
\* backprop-filter convolution), the node is replaced by its rewritten value
\* in every instruction that read it and as root, no BatchToSpace conversion
\* is made, and no user is classified or enqueued; in a turn on the root
\* that needs further propagation, the node's BatchToSpace conversion
\* becomes the root.
C9_DirectReplacementOrRootConversion ==
    [][LET step == ghost'.step
           node == step.node
       IN (step.kind \in {"direct", "root", "users"} /\ pc' # "abort") =>
              /\ (iteration_count # 0 /\ instrs[node].opcode = "reduce")
                     => ~step.needs
              /\ ~step.needs =>
                     /\ step.kind = "direct"
                     /\ instrs[node].opcode \in {"reduce", "convolution"}
                     /\ node \in DOMAIN old_to_new_instrs_'
                     /\ node \in removed'
                     /\ \A h \in DOMAIN instrs :
                            (h # node /\ h \notin removed) =>
                                instrs'[h] =
                                    ReplaceOperands(instrs[h], node,
                                        old_to_new_instrs_'[node])
                     /\ root_instruction' =
                            IF root_instruction = node
                            THEN old_to_new_instrs_'[node]
                            ELSE root_instruction
                     /\ batch_to_space_map_' = batch_to_space_map_
                     /\ node \notin DOMAIN batch_to_space_map_'
                     /\ step.ev = <<>>
                     /\ propagation_worklist' = Tail(propagation_worklist)
              /\ (step.needs /\ root_instruction = node) =>
                     /\ step.kind = "root"
                     /\ node \in DOMAIN batch_to_space_map_'
                     /\ root_instruction' = batch_to_space_map_'[node]
                     /\ node \in removed'
                     /\ step.ev = <<>>
      ]_vars

\* A reduce over batch and space that was the root has been replaced by its
\* rewritten value, which is the root now.
C9_Witness ==
    /\ ghost.step.kind = "direct"
    /\ ghost.instrs[ghost.step.node].opcode = "reduce"
    /\ ghost.root = ghost.step.node
    /\ root_instruction = old_to_new_instrs_[ghost.step.node]
    /\ ghost.step.node \notin DOMAIN batch_to_space_map_

\* C10: a binary elementwise user of a rewritten node whose other operand is
\* a broadcast is classified ready, the broadcast having no entry in
\* old_to_new_instrs_, when the broadcast's dimensions hold neither the
\* node's batch axis nor its space axis, and unsupported when they hold one
\* of them; and the turn that rewrites such a user gives the new user, in
\* the place of the broadcast, a new broadcast of the same operand that has
\* the rewritten node's shape and the old dimensions looked up in the
\* rewritten node's permute map.
C10_BroadcastOperand ==
    [][LET step == ghost'.step
           IsBroadcast(h) == instrs[h].opcode = "broadcast"
           WithBroadcast(u, n) ==
               /\ instrs[u].opcode = "add"
               /\ \E i \in 1..2 :
                      /\ IsBroadcast(instrs[u].operands[i])
                      /\ instrs[u].operands[3 - i] = n
       IN /\ \A k \in DOMAIN step.ev :
                 LET e == step.ev[k]
                     dims == instr_to_dim_map_'[e.node]
                 IN WithBroadcast(e.user, e.node) =>
                        \A i \in 1..2 :
                            LET b == instrs[e.user].operands[i]
                            IN IsBroadcast(b) =>
                                   IF dims[1] \in Range(instrs[b].dimensions)
                                      \/ dims[2] \in Range(instrs[b].dimensions)
                                   THEN e.kind = "unsupported"
                                   ELSE /\ e.kind = "ready"
                                        /\ b \notin DOMAIN old_to_new_instrs_'
          /\ (step.kind \in {"direct", "root", "users"}
                  /\ iteration_count # 0
                  /\ WithBroadcast(step.node, step.parent)) =>
                 LET new == instrs'[old_to_new_instrs_'[step.node]]
                     rewritten == old_to_new_instrs_'[step.parent]
                     permute == instr_to_dim_permute_map_'[rewritten]
                 IN /\ new.opcode = "add"
                    /\ new.shape = instrs'[rewritten].shape
                    /\ \A i \in 1..2 :
                           LET b == instrs[step.node].operands[i]
                           IN IF IsBroadcast(b)
                              THEN /\ new.operands[i] \notin DOMAIN instrs
                                   /\ instrs'[new.operands[i]] =
                                          [instrs[b] EXCEPT
                                              !.shape = instrs'[rewritten].shape,
                                              !.dimensions =
                                                  [j \in DOMAIN @ |->
                                                      permute[@[j] + 1]]]
                              ELSE new.operands[i] = rewritten
      ]_vars

\* An add of a rewritten convolution and a broadcast along the feature axis
\* has been rewritten where the permute map moves the axes.
C10_Witness ==
    /\ ghost.step.kind \in {"root", "users"}
    /\ ghost.step.node \in DOMAIN old_to_new_instrs_
    /\ ghost.instrs[ghost.step.node].opcode = "add"
    /\ \E i \in 1..2 :
           ghost.instrs[ghost.instrs[ghost.step.node].operands[i]].opcode
               = "broadcast"
    /\ instr_to_dim_permute_map_[old_to_new_instrs_[ghost.step.node]]
           # <<0, 1, 2>>

---------------------------------------------------------------------------
\* C11: each original node is rewritten at most once. A rewrite gives the node
\* a fresh instruction as its old_to_new_instrs_ entry, so no step of the pass
\* removes or changes an entry that exists; Run's loop starts the initial
\* rewrite only on a convolution that has no entry, and a worklist turn on a
\* node that has one (other than the first turn) changes nothing.
C11_RewrittenAtMostOnce ==
    [][/\ \A n \in DOMAIN old_to_new_instrs_ :
              /\ n \in DOMAIN old_to_new_instrs_'
              /\ old_to_new_instrs_'[n] = old_to_new_instrs_[n]
       /\ (pc = "run" /\ conv_index <= Len(conv_visitor_list_)
           /\ conv_visitor_list_[conv_index] \in DOMAIN old_to_new_instrs_) =>
              UNCHANGED <<graphVars, tableVars>>
       /\ (pc = "propagate" /\ iteration_count # 0
           /\ Head(propagation_worklist)[1] \in DOMAIN old_to_new_instrs_) =>
              UNCHANGED <<graphVars, tableVars>>]_vars

\* The worklist held a convolution of Run's list twice (as a user of the
\* rewritten convolution and of its negation): the first turn rewrote it and
\* took it out of the to-visit set, the second turn passed over it.
C11_Witness ==
    /\ ghost.step.kind = "skip"
    /\ ghost.step.node \in Range(conv_visitor_list_)
    /\ ghost.step.node \notin convs_to_visit_
    /\ ghost.step.node \in DOMAIN old_to_new_instrs_

---------------------------------------------------------------------------
\* C12: on every computation (finite and acyclic) the pass terminates. The
\* program always has a next step to take while it propagates; a propagation
\* that has started leads to the worklist running empty, with control back
\* in Run's loop, unless the pass aborts before that; and the pass as a
\* whole ends, after the sweep or in an abort.
C12_Termination ==
    /\ [](pc = "propagate" => propagation_worklist # <<>>)
    /\ (pc = "propagate") ~>
           ((pc = "run" /\ propagation_worklist = <<>>) \/ pc = "abort")
    /\ <>(pc \in {"done", "abort"})

\* The pass has ended, sweep included, after a propagation of several turns
\* that left a user not ready for the sweep.
C12_Witness ==
    /\ pc = "done"
    /\ propagation_worklist = <<>>
    /\ iteration_count >= 2
    /\ ghost.ever_non_propagatable # {}
    /\ non_propagatable_instrs_ = {}

---------------------------------------------------------------------------
\* C13: a failing primitive aborts the pass at once. A step in which the
\* initial rewrite, a worklist turn or the sweep fails ends in the abort; no
\* step follows the abort (nothing is retried, no result is returned, pc
\* never becomes "done"); and the abort undoes nothing: every instruction,
\* removal and table entry made before the failing step is still there, the
\* rewrite a turn made before its replacement or conversion failed is still
\* there, and a failing sweep has cleared the two convolution lists but not
\* the non-propagatable set.
C13_FailureAborts ==
    [][/\ pc # "abort"
       /\ (pc = "run" /\ conv_index <= Len(conv_visitor_list_)
           /\ conv_visitor_list_[conv_index] \in convs_to_visit_
           /\ ~SpaceToBatchOnConvolution(
                   St, conv_visitor_list_[conv_index]).ok) => pc' = "abort"
       /\ (pc = "propagate"
           /\ ~WorklistTurn(St, Head(propagation_worklist)[1],
                            Head(propagation_worklist)[2],
                            Tail(propagation_worklist), iteration_count,
                            limit_on_batch_size_).S.ok) => pc' = "abort"
       /\ (pc = "run" /\ conv_index > Len(conv_visitor_list_)
           /\ ~SweepNonPropagatable([St EXCEPT !.convs = {}],
                                    Ascending(non_propagatable_instrs_)).ok)
              => pc' = "abort"
       /\ pc' = "abort" =>
              /\ Len(instrs') >= Len(instrs)
              /\ \A h \in DOMAIN instrs :
                     instrs'[h].opcode = instrs[h].opcode
                     /\ instrs'[h].shape = instrs[h].shape
              /\ removed \subseteq removed'
              /\ \A n \in DOMAIN old_to_new_instrs_ :
                     n \in DOMAIN old_to_new_instrs_'
                     /\ old_to_new_instrs_'[n] = old_to_new_instrs_[n]
              /\ \A n \in DOMAIN batch_to_space_map_ :
                     n \in DOMAIN batch_to_space_map_'
                     /\ batch_to_space_map_'[n] = batch_to_space_map_[n]
              /\ (pc = "propagate"
                  /\ ghost'.step.kind \in {"direct", "root", "users"}) =>
                     /\ ghost'.step.node \in DOMAIN old_to_new_instrs_'
                     /\ iteration_count # 0 =>
                            /\ ghost'.step.node
                                   \notin DOMAIN old_to_new_instrs_
                            /\ old_to_new_instrs_'[ghost'.step.node]
                                   \in (Len(instrs) + 1)..Len(instrs')
              /\ (pc = "run" /\ conv_index > Len(conv_visitor_list_)) =>
                     /\ conv_visitor_list_' = <<>>
                     /\ convs_to_visit_' = {}
                     /\ non_propagatable_instrs_'
                            = non_propagatable_instrs_]_vars

\* The sweep has aborted on a conversion that cannot be built: the rewritten
\* instructions and the table entries of the propagation are all there, the
\* non-propagatable user still waits and still reads its original operand.
C13_Witness ==
    /\ pc = "abort"
    /\ ghost.step.kind = "none"
    /\ conv_visitor_list_ = <<>>
    /\ non_propagatable_instrs_ # {}
    /\ Len(instrs) > Len(ghost.instrs)
    /\ \A n \in non_propagatable_instrs_ :
           instrs[n].operands = ghost.instrs[n].operands
    /\ \E n \in DOMAIN old_to_new_instrs_ :
           ghost.instrs[n].opcode = "reduce-window"

---------------------------------------------------------------------------
\* C14: the legality check is a pure predicate. The constructor, which calls
\* it on every convolution, changes neither the graph nor a table other than
\* the two lists it fills; the check gives, on every convolution of the
\* computation that is still in it, the verdict it gave at construction,
\* whatever the pass has rewired around the convolution since; and the calls
\* made during propagation leave no trace: a convolution has an entry in
\* instr_to_dim_map_, in old_to_new_instrs_ or in batch_to_space_map_ only
\* once it has been rewritten, and until then it is as it was.
C14_LegalityCheckPure ==
    [][/\ pc = "construct" =>
              /\ UNCHANGED <<graphVars, non_propagatable_instrs_,
                             batch_to_space_map_, old_to_new_instrs_,
                             instr_to_dim_map_, instr_to_dim_permute_map_>>
              /\ \A c \in DOMAIN instrs :
                     c \in convs_to_visit_'
                     <=> /\ instrs[c].opcode = "convolution"
                         /\ IsConvSuitableForSpaceToBatch(
                                instrs, instrs[c], limit_on_batch_size_)
       /\ \A c \in DOMAIN ghost.instrs :
              (ghost.instrs[c].opcode = "convolution" /\ c \notin removed') =>
                  /\ IsConvSuitableForSpaceToBatch(
                         instrs', instrs'[c], limit_on_batch_size_')
                     = IsConvSuitableForSpaceToBatch(
                           ghost.instrs, ghost.instrs[c], limit_on_batch_size_)
                  /\ c \notin ghost'.rewritten =>
                         /\ c \notin DOMAIN instr_to_dim_map_'
                         /\ c \notin DOMAIN old_to_new_instrs_'
                         /\ c \notin DOMAIN batch_to_space_map_'
                         /\ instrs'[c].shape = ghost.instrs[c].shape
                         /\ instrs'[c].window = ghost.instrs[c].window]_vars

\* A turn has classified a user convolution that the constructor had found
\* legal: the check was called on it again, it is ready, and it has no entry
\* in any table.
C14_Witness ==
    /\ pc = "propagate"
    /\ ghost.step.kind = "users"
    /\ \E i \in DOMAIN ghost.step.ev :
           /\ ghost.step.ev[i].kind = "ready"
           /\ ghost.step.ev[i].user \in Range(conv_visitor_list_)
           /\ ghost.step.ev[i].user \in convs_to_visit_
           /\ ghost.step.ev[i].user \notin DOMAIN instr_to_dim_map_
           /\ ghost.step.ev[i].user \notin DOMAIN old_to_new_instrs_

---------------------------------------------------------------------------
\* C15: for the last spatial axis of a convolution, GetConvolutionDetails
\* gives spatial_size = input size + high padding, plus the low padding only
\* when the base dilation is 1; halo_size = kernel size - stride -
\* (base dilation - 1), or 0 when that is negative; high_padding_for_conv =
\* base dilation - 1 when the base dilation is above 1 and the low padding
\* is 0, and 0 otherwise; low_padding_for_conv = the low padding when the
\* base dilation is above 1, and 0 otherwise.
C15_ConvolutionDetails ==
    pc = "run" =>
        \A h \in DOMAIN instrs :
            (/\ instrs[h].opcode = "convolution"
             /\ instrs[h].convolution_dimension_numbers
                    .input_spatial_dimensions # <<>>) =>
                LET conv == instrs[h]
                    dn == conv.convolution_dimension_numbers
                    n == Len(dn.input_spatial_dimensions)
                    w == conv.window[n]
                    input == At(instrs[conv.operands[1]].shape,
                                dn.input_spatial_dimensions[n])
                    kernel == At(instrs[conv.operands[2]].shape,
                                 dn.kernel_spatial_dimensions[n])
                    c == GetConvolutionDetails(instrs, conv, dn)
                    raw == kernel - w.stride - (w.base_dilation - 1)
                IN /\ w.base_dilation = 1 =>
                          /\ c.spatial_size =
                                 input + w.padding_low + w.padding_high
                          /\ c.high_padding_for_conv = 0
                          /\ c.low_padding_for_conv = 0
                   /\ w.base_dilation > 1 =>
                          /\ c.spatial_size = input + w.padding_high
                          /\ c.low_padding_for_conv = w.padding_low
                          /\ w.padding_low = 0 =>
                                 c.high_padding_for_conv = w.base_dilation - 1
                          /\ w.padding_low # 0 => c.high_padding_for_conv = 0
                   /\ raw >= 0 => c.halo_size = raw
                   /\ raw < 0 => c.halo_size = 0
                   /\ c.spatial_dimension_to_split
                          = dn.input_spatial_dimensions[n]

\* The constructor has accepted a convolution with base dilation 2, no low
\* padding, high padding and a kernel of size 1: its halo is cut off at 0
\* and the convolution gets high padding 1.
C15_Witness ==
    /\ pc = "run"
    /\ conv_visitor_list_ = <<3>>
    /\ LET w == instrs[3].window[Len(instrs[3].window)]
           c == GetConvolutionDetails(
                    instrs, instrs[3], instrs[3].convolution_dimension_numbers)
       IN /\ w.base_dilation = 2 /\ w.padding_low = 0 /\ w.padding_high = 1
          /\ w.size = 1 /\ w.stride = 1
          /\ c.halo_size = 0
          /\ c.high_padding_for_conv = 1
          /\ c.low_padding_for_conv = 0
          /\ c.spatial_size = instrs[1].shape[
                 c.spatial_dimension_to_split + 1] + 1

---------------------------------------------------------------------------
\* C16: when Run hands a legal convolution to the initial rewrite, the extra
\* padding pad_size = spatial_split_size * num_splits - spatial_size is not
\* negative; the activations with the inherent and the extra padding
\* materialized have extent spatial_split_size * num_splits on the split
\* axis; the new batch size old_batch * num_splits is 8; so the reshape to
\* (8, spatial_split_size) keeps the number of elements, the rewrite
\* creates the new convolution, and that convolution has batch size 8.
C16_PaddingFillsSplits ==
    [][(/\ pc = "run"
        /\ conv_index <= Len(conv_visitor_list_)
        /\ conv_visitor_list_[conv_index] \in convs_to_visit_) =>
           LET conv == conv_visitor_list_[conv_index]
               dn == instrs[conv].convolution_dimension_numbers
               n == Len(dn.input_spatial_dimensions)
               activations == instrs[instrs[conv].operands[1]].shape
               old_batch == At(activations, dn.input_batch_dimension)
               num_splits == 8 \div old_batch
               c == GetConvolutionDetails(instrs, instrs[conv], dn)
               bs == BringSpaceNextToBatch(activations, dn,
                         c.spatial_dimension_to_split,
                         dn.input_batch_dimension)
               space == bs.spatial_dimension_to_split
               split == SpatialSplitSize(instrs, removed, conv, c, num_splits,
                            bs.dim_numbers.output_spatial_dimensions[n])
               pad_size == split * num_splits - c.spatial_size
               padded == PadSpatialDim(bs.shape, space, c, pad_size)
               folded == SetAt(SetAt(padded, space, split),
                               bs.activations_batch_dim, 8)
           IN /\ pad_size >= 0
              /\ At(padded, space) = split * num_splits
              /\ At(padded, space) =
                     At(bs.shape, space) + pad_size + c.inherent_high_padding
                     + (IF c.base_dilation_factor = 1
                        THEN c.inherent_low_padding ELSE 0)
              /\ old_batch * num_splits = 8
              /\ Product(folded) = Product(padded)
              /\ conv \in DOMAIN old_to_new_instrs_'
              /\ LET new_conv == instrs'[old_to_new_instrs_'[conv]]
                 IN At(new_conv.shape, instr_to_dim_permute_map_'[
                           old_to_new_instrs_'[conv]][
                               instr_to_dim_map_'[conv][1] + 1]) = 8]_vars

\* A convolution with base dilation 2 and inherent padding on both sides,
\* whose activations also needed extra padding, has been rewritten.
C16_Witness ==
    /\ pc = "propagate"
    /\ iteration_count = 0
    /\ LET conv == Head(propagation_worklist)[1]
           dn == ghost.instrs[conv].convolution_dimension_numbers
           n == Len(dn.input_spatial_dimensions)
           w == ghost.instrs[conv].window[n]
           c == GetConvolutionDetails(ghost.instrs, ghost.instrs[conv], dn)
           old_batch == At(ghost.instrs[ghost.instrs[conv].operands[1]].shape,
                           dn.input_batch_dimension)
       IN /\ conv \in DOMAIN old_to_new_instrs_
          /\ w.base_dilation = 2
          /\ w.padding_low > 0 /\ w.padding_high > 0
          /\ c.spatial_size % (8 \div old_batch) # 0

---------------------------------------------------------------------------
\* The instructions at most k users below one of set, not looking below a
\* reduce-window, a convolution, a pad or a transpose.
RECURSIVE WithinUsers(_, _, _, _)
WithinUsers(I, rm, set, k) ==
    IF k = 0 THEN set
    ELSE WithinUsers(I, rm,
             set \cup {u \in DOMAIN I \ rm :
                          /\ I[u].opcode \notin {"reduce-window", "convolution",
                                                 "pad", "transpose"}
                          /\ \E q \in set : q \in Range(I[u].operands)},
             k - 1)

\* The reduce-windows that read an instruction of set.
ReduceWindowsBelow(I, rm, set) ==
    {r \in DOMAIN I \ rm :
        /\ I[r].opcode = "reduce-window"
        /\ \E q \in set : q \in Range(I[r].operands)}

\* C17: the initial rewrite of a convolution terminates with a
\* spatial_split_size that is ceil(ceil(output_size / num_splits) /
\* base_dilation) * stride plus a whole number of strides, with
\* num_splits * spatial_split_size >= spatial_size, and, when a reduce-window
\* is at most 10 users below the convolution (not looking below a
\* convolution, a pad or a transpose), with spatial_split_size / stride a
\* multiple of the stride of such a reduce-window on the output spatial axis.
\* The size is read off the new convolution, whose space extent is
\* spatial_split_size * base_dilation / stride.
C17_SpatialSplitSize ==
    [][(/\ pc = "run"
        /\ conv_index <= Len(conv_visitor_list_)
        /\ conv_visitor_list_[conv_index] \in convs_to_visit_) =>
           LET conv == conv_visitor_list_[conv_index]
               dn == instrs[conv].convolution_dimension_numbers
               n == Len(dn.input_spatial_dimensions)
               w == instrs[conv].window[n]
               old_batch == At(instrs[instrs[conv].operands[1]].shape,
                               dn.input_batch_dimension)
               input == At(instrs[instrs[conv].operands[1]].shape,
                           dn.input_spatial_dimensions[n])
               spatial_size ==
                   input + w.padding_high
                   + (IF w.base_dilation > 1 THEN 0 ELSE w.padding_low)
               num_splits == 8 \div old_batch
               output_spatial_dim == dn.output_spatial_dimensions[n]
               output_size == At(instrs[conv].shape, output_spatial_dim)
               per_split == (output_size + num_splits - 1) \div num_splits
               start == ((per_split + w.base_dilation - 1)
                             \div w.base_dilation) * w.stride
               found == ReduceWindowsBelow(
                            instrs, removed,
                            WithinUsers(instrs, removed, {conv},
                                        kReduceWindowSearchDepth - 1))
           IN /\ conv \in DOMAIN old_to_new_instrs_'
              /\ LET new_conv == old_to_new_instrs_'[conv]
                     extent == At(instrs'[new_conv].shape,
                                  instr_to_dim_permute_map_'[new_conv][
                                      instr_to_dim_map_'[conv][2] + 1])
                 IN \E j \in 0..(spatial_size + 8) :
                        LET spatial_split_size == start + j * w.stride
                        IN /\ extent * w.stride
                                  = spatial_split_size * w.base_dilation
                           /\ spatial_split_size % w.stride = 0
                           /\ num_splits * spatial_split_size >= spatial_size
                           /\ found # {} =>
                                  \E r \in found :
                                      (spatial_split_size \div w.stride)
                                      % instrs[r].window[
                                            output_spatial_dim + 1].stride = 0]_vars

\* A convolution with stride 2 whose split had to grow twice, by 4 in all,
\* to suit the reduce-window of stride 3 that reads it, has been rewritten.
C17_Witness ==
    /\ pc = "propagate"
    /\ iteration_count = 0
    /\ Len(ghost.instrs) = 5
    /\ ghost.instrs[5].opcode = "reduce-window"
    /\ LET dn == ghost.instrs[3].convolution_dimension_numbers
           w == ghost.instrs[3].window[1]
           c == GetConvolutionDetails(ghost.instrs, ghost.instrs[3], dn)
           num_splits == 8 \div At(ghost.instrs[1].shape,
                                   dn.input_batch_dimension)
           output_size == At(ghost.instrs[3].shape,
                             dn.output_spatial_dimensions[1])
           extent == At(instrs[old_to_new_instrs_[3]].shape,
                        instr_to_dim_permute_map_[old_to_new_instrs_[3]][
                            instr_to_dim_map_[3][2] + 1])
       IN /\ 3 \in DOMAIN old_to_new_instrs_
          /\ w.stride = 2
          /\ ghost.instrs[5].window[dn.output_spatial_dimensions[1] + 1].stride
                 = 3
          /\ extent * 2
                 = CeilOfRatio(output_size, num_splits) * 2 + 4
          /\ extent % 3 = 0

---------------------------------------------------------------------------
\* C18 as stated: when Run's loop is about to look at a further convolution,
\* the propagation of the one before has drained and the sweep has run, so
\* no instruction in non_propagatable_instrs_ still reads a rewritten value.
C18_SweptAfterEachConvolution ==
    (pc = "run" /\ 1 < conv_index /\ conv_index <= Len(conv_visitor_list_)) =>
        \A n \in non_propagatable_instrs_ :
            \A i \in DOMAIN instrs[n].operands :
                instrs[n].operands[i] \notin DOMAIN old_to_new_instrs_

\* C18, amended: the sweep over non_propagatable_instrs_ runs once, when
\* Run's loop has attempted every convolution. Until then a turn that finds
\* a user not ready puts it in the set and leaves it as it is, the last turn
\* of a convolution's propagation included; no step rewires an instruction
\* that stays in the set, and an instruction leaves the set only for the
\* worklist, when a later rewrite has made it ready. The sweep
\* gives every member, in the place of each operand that has an entry in
\* old_to_new_instrs_, that operand's BatchToSpace conversion, leaves its
\* other operands alone and empties the set; the pass ends by no other step.
C18_SweepOnceAtTheEnd ==
    [][/\ ~(pc = "run" /\ conv_index > Len(conv_visitor_list_)) =>
              /\ pc' # "done"
              /\ \A n \in NotReadyOf(ghost'.step.ev) :
                     /\ n \in non_propagatable_instrs_'
                     /\ instrs'[n].operands = instrs[n].operands
              /\ \A n \in non_propagatable_instrs_ :
                     IF n \in non_propagatable_instrs_'
                     THEN instrs'[n].operands = instrs[n].operands
                     ELSE \E i \in DOMAIN propagation_worklist' :
                              propagation_worklist'[i][1] = n
       /\ (pc = "run" /\ conv_index > Len(conv_visitor_list_)
              /\ pc' = "done") =>
              /\ non_propagatable_instrs_' = {}
              /\ \A n \in non_propagatable_instrs_ :
                     \A i \in DOMAIN instrs[n].operands :
                         IF instrs[n].operands[i] \in DOMAIN old_to_new_instrs_
                         THEN /\ instrs[n].operands[i]
                                     \in DOMAIN batch_to_space_map_'
                              /\ instrs'[n].operands[i] =
                                     batch_to_space_map_'[instrs[n].operands[i]]
                         ELSE instrs'[n].operands[i] = instrs[n].operands[i]]_vars

\* The pass has ended after two convolutions; an instruction that the
\* propagation of the first had left in the set, reading the rewritten
\* first convolution, was made ready by the second and propagated.
C18_Witness ==
    /\ pc = "done"
    /\ Cardinality(ghost.rewritten) >= 2
    /\ \E n \in ghost.ever_non_propagatable :
           /\ n \in DOMAIN old_to_new_instrs_
           /\ \A i \in DOMAIN ghost.instrs[n].operands :
                  ghost.instrs[n].operands[i] \in ghost.rewritten

---------------------------------------------------------------------------
\* C19 as stated: a reduce that a turn classifies as supported reduces the
\* batch axis and the space axis of its operand 0 and no other axis.
C19_ReducedAxesExactly ==
    [][\A i \in DOMAIN ghost'.step.ev :
           LET u == ghost'.step.ev[i].user
           IN (instrs[u].opcode = "reduce"
               /\ ghost'.step.ev[i].kind # "unsupported") =>
                  Range(instrs[u].dimensions) =
                      {instr_to_dim_map_'[instrs[u].operands[1]][1],
                       instr_to_dim_map_'[instrs[u].operands[1]][2]}]_vars

\* C19, amended: a turn classifies a reduce as supported exactly when the
\* batch axis and the space axis that instr_to_dim_map_ holds for its
\* operand 0 are both among its reduced axes, whatever else it reduces.
C19_ReducedAxesInclude ==
    [][\A i \in DOMAIN ghost'.step.ev :
           LET u == ghost'.step.ev[i].user
           IN instrs[u].opcode = "reduce" =>
                  /\ instrs[u].operands[1] \in DOMAIN instr_to_dim_map_'
                  /\ ghost'.step.ev[i].kind # "unsupported"
                     <=> {instr_to_dim_map_'[instrs[u].operands[1]][1],
                          instr_to_dim_map_'[instrs[u].operands[1]][2]}
                             \subseteq Range(instrs[u].dimensions)]_vars

\* A turn has classified a reduce over the batch, the feature and the space
\* axis of the rewritten convolution as supported and ready.
C19_Witness ==
    /\ ghost.step.kind = "users"
    /\ \E i \in DOMAIN ghost.step.ev :
           LET u == ghost.step.ev[i].user
           IN /\ ghost.instrs[u].opcode = "reduce"
              /\ ghost.step.ev[i].kind = "ready"
              /\ ghost.step.ev[i].node = ghost.instrs[u].operands[1]
              /\ Cardinality(Range(ghost.instrs[u].dimensions)) = 3
              /\ {instr_to_dim_map_[ghost.step.ev[i].node][1],
                  instr_to_dim_map_[ghost.step.ev[i].node][2]}
                     \subseteq Range(ghost.instrs[u].dimensions)

---------------------------------------------------------------------------
\* C20: a reduce-window or select-and-scatter that a turn classifies as
\* supported has an operand 0 with an entry in old_to_new_instrs_, window
\* size 1 on the batch axis of that operand, low padding 0 on its space
\* axis, high padding on the space axis that is at most the window size,
\* and a stride on the space axis that divides the space extent of the
\* rewritten operand.
C20_WindowedOpSupportedOnlyWhen ==
    [][\A i \in DOMAIN ghost'.step.ev :
           LET u == ghost'.step.ev[i].user
           IN (instrs[u].opcode \in {"reduce-window", "select-and-scatter"}
               /\ ghost'.step.ev[i].kind # "unsupported") =>
                  LET first_operand == instrs[u].operands[1]
                      batch == instr_to_dim_map_'[first_operand][1]
                      space == instr_to_dim_map_'[first_operand][2]
                      w == instrs[u].window
                      new_operand == old_to_new_instrs_'[first_operand]
                      extent == At(instrs'[new_operand].shape,
                                   instr_to_dim_permute_map_'[new_operand][
                                       space + 1])
                  IN /\ first_operand \in DOMAIN old_to_new_instrs_'
                     /\ first_operand \in DOMAIN instr_to_dim_map_'
                     /\ w[batch + 1].size = 1
                     /\ w[space + 1].padding_low = 0
                     /\ w[space + 1].padding_high <= w[space + 1].size
                     /\ extent % w[space + 1].stride = 0]_vars

\* A turn has classified as supported a reduce-window of size 1 and stride 2
\* on the space axis of a rewritten convolution whose space extent is odd.
C20_Witness ==
    /\ ghost.step.kind = "users"
    /\ \E i \in DOMAIN ghost.step.ev :
           LET u == ghost.step.ev[i].user
               first_operand == ghost.instrs[u].operands[1]
               space == instr_to_dim_map_[first_operand][2]
               new_operand == old_to_new_instrs_[first_operand]
           IN /\ ghost.instrs[u].opcode = "reduce-window"
              /\ ghost.step.ev[i].kind = "ready"
              /\ ghost.instrs[u].window[space + 1].size = 1
              /\ ghost.instrs[u].window[space + 1].stride = 2
              /\ At(instrs[new_operand].shape,
                    instr_to_dim_permute_map_[new_operand][space + 1]) % 2 = 1

---------------------------------------------------------------------------
\* C21: when a turn rewrites a reduce-window or select-and-scatter, the new
\* window is the old one with its axes permuted by the permutation of the
\* rewritten operand: for every axis a of the old window the entry of the
\* new window at the new index of a has the size, the stride and the
\* dilations of a; it has the padding of a when a is not the tracked space
\* axis, and no padding when it is.
C21_WindowPermuted ==
    [][\A node \in DOMAIN old_to_new_instrs_' \ DOMAIN old_to_new_instrs_ :
           (/\ node \in DOMAIN instrs
            /\ instrs[node].opcode \in {"reduce-window", "select-and-scatter"})
           =>
               LET operand0 == instrs[node].operands[1]
                   space == instr_to_dim_map_'[operand0][2]
                   permute_dims ==
                       instr_to_dim_permute_map_'[old_to_new_instrs_'[operand0]]
                   old_win == instrs[node].window
                   new_win == instrs'[old_to_new_instrs_'[node]].window
               IN /\ Len(new_win) = Len(old_win)
                  /\ \A a \in 0..(Len(old_win) - 1) :
                         LET o == old_win[a + 1]
                             n == new_win[permute_dims[a + 1] + 1]
                         IN /\ n.size = o.size
                            /\ n.stride = o.stride
                            /\ n.window_dilation = o.window_dilation
                            /\ n.base_dilation = o.base_dilation
                            /\ a # space =>
                                   /\ n.padding_low = o.padding_low
                                   /\ n.padding_high = o.padding_high
                            /\ a = space =>
                                   /\ n.padding_low = 0
                                   /\ n.padding_high = 0]_vars

\* A reduce-window over the space axis has been rewritten on a value whose
\* batch, feature and space axes have all changed index.
C21_Witness ==
    /\ ghost.step.kind \in {"direct", "root", "users"}
    /\ ghost.step.node \in DOMAIN old_to_new_instrs_
    /\ ghost.instrs[ghost.step.node].opcode = "reduce-window"
    /\ LET operand0 == ghost.instrs[ghost.step.node].operands[1]
           permute_dims ==
               instr_to_dim_permute_map_[old_to_new_instrs_[operand0]]
       IN /\ \A a \in DOMAIN permute_dims : permute_dims[a] # a - 1
          /\ ghost.instrs[ghost.step.node].window[
                 instr_to_dim_map_[operand0][2] + 1].size = 2

---------------------------------------------------------------------------
\* C22: BatchToSpace is memoized per original instruction. An entry of
\* batch_to_space_map_ is never replaced; a step makes one new instruction
\* of the converted form (a transpose that is no table's rewrite) for each
\* entry it adds to the map, and none when it adds no entry, however many
\* users, the root or the sweep ask for the conversion; and every
\* instruction of the computation that reads a conversion reads the one
\* instruction the map holds for the original it read before.
C22_BatchToSpaceMemoized ==
    [][LET conversions(I, o2n) ==
               {h \in DOMAIN I : /\ h > Len(ghost.instrs)
                                 /\ I[h].opcode = "transpose"
                                 /\ h \notin Range(o2n)}
       IN /\ \A n \in DOMAIN batch_to_space_map_ :
                 /\ n \in DOMAIN batch_to_space_map_'
                 /\ batch_to_space_map_'[n] = batch_to_space_map_[n]
          /\ conversions(instrs', old_to_new_instrs_')
                 \ conversions(instrs, old_to_new_instrs_)
             = {batch_to_space_map_'[n] :
                    n \in DOMAIN batch_to_space_map_'
                             \ DOMAIN batch_to_space_map_}
          /\ \A u \in DOMAIN ghost.instrs :
                 \A i \in DOMAIN instrs'[u].operands :
                     instrs'[u].operands[i]
                         \in conversions(instrs', old_to_new_instrs_') =>
                         /\ ghost.instrs[u].operands[i]
                                \in DOMAIN batch_to_space_map_'
                         /\ instrs'[u].operands[i] =
                                batch_to_space_map_'[
                                    ghost.instrs[u].operands[i]]]_vars

\* The sweep has asked again for the conversion of a convolution that a
\* turn had already converted for an unsupported user: both users read the
\* same instruction and the sweep has added none.
C22_Witness ==
    /\ pc = "done"
    /\ 3 \in DOMAIN batch_to_space_map_
    /\ ghost.step.kind = "none"
    /\ \E u, v \in DOMAIN ghost.instrs :
           /\ u # v
           /\ 3 \in Range(ghost.instrs[u].operands)
           /\ 3 \in Range(ghost.instrs[v].operands)
           /\ batch_to_space_map_[3] \in Range(instrs[u].operands)
           /\ batch_to_space_map_[3] \in Range(instrs[v].operands)
           /\ v \in ghost.ever_non_propagatable
           /\ u \notin ghost.ever_non_propagatable
    /\ Cardinality({h \in DOMAIN instrs : h > Len(ghost.instrs)
                                          /\ instrs[h].opcode = "transpose"})
           = 1

---------------------------------------------------------------------------
\* C23 as stated: until the step that ends the pass, no step removes an
\* entry from old_to_new_instrs_, instr_to_dim_map_,
\* instr_to_dim_permute_map_, batch_to_space_map_ or
\* non_propagatable_instrs_.
C23_TablesOnlyGrow ==
    [][pc' # "done" =>
           /\ DOMAIN old_to_new_instrs_ \subseteq DOMAIN old_to_new_instrs_'
           /\ DOMAIN instr_to_dim_map_ \subseteq DOMAIN instr_to_dim_map_'
           /\ DOMAIN instr_to_dim_permute_map_
                  \subseteq DOMAIN instr_to_dim_permute_map_'
           /\ DOMAIN batch_to_space_map_ \subseteq DOMAIN batch_to_space_map_'
           /\ non_propagatable_instrs_ \subseteq non_propagatable_instrs_']_vars

\* C23, amended: no step, the last included, removes an entry from one of
\* the four maps. non_propagatable_instrs_ is not such a table: a turn of
\* the worklist loop adds the users it finds not ready and erases the users
\* it finds ready, and no other step but the end of Run, which empties the
\* set, changes it.
C23_MapsOnlyGrow ==
    [][/\ DOMAIN old_to_new_instrs_ \subseteq DOMAIN old_to_new_instrs_'
       /\ DOMAIN instr_to_dim_map_ \subseteq DOMAIN instr_to_dim_map_'
       /\ DOMAIN instr_to_dim_permute_map_
              \subseteq DOMAIN instr_to_dim_permute_map_'
       /\ DOMAIN batch_to_space_map_ \subseteq DOMAIN batch_to_space_map_'
       /\ IF pc' = "done" THEN non_propagatable_instrs_' = {}
          ELSE LET ev == IF pc = "propagate" THEN ghost'.step.ev ELSE <<>>
                   ready == {ev[i].user :
                                i \in {j \in DOMAIN ev : ev[j].kind = "ready"}}
               IN non_propagatable_instrs_' =
                      (non_propagatable_instrs_ \ ready) \cup NotReadyOf(ev)]_vars

\* A turn has found ready, and erased from the set, a user that an earlier
\* turn had put there.
C23_Witness ==
    /\ pc \in {"propagate", "run"}
    /\ \E i \in DOMAIN ghost.step.ev :
           /\ ghost.step.ev[i].kind = "ready"
           /\ ghost.step.ev[i].user \in ghost.ever_non_propagatable
           /\ ghost.step.ev[i].user \notin non_propagatable_instrs_
    /\ DOMAIN old_to_new_instrs_ # {}

---------------------------------------------------------------------------
\* C24: an entry of instr_to_dim_map_ never changes once it is there; only
\* rewritten instructions have one; a step adds an entry only for the
\* instruction it rewrites, so no readiness check adds or alters one; a
\* convolution's entry is its output batch dimension and its chosen output
\* spatial dimension, and any other consumer's entry is the entry of its
\* anchor operand (the producer that queued an elementwise consumer,
\* operand 0 of a reduce or windowed consumer).
C24_DimMapAssignedOnce ==
    [][/\ \A h \in DOMAIN instr_to_dim_map_ :
              /\ h \in DOMAIN instr_to_dim_map_'
              /\ instr_to_dim_map_'[h] = instr_to_dim_map_[h]
       /\ DOMAIN instr_to_dim_map_' \subseteq DOMAIN old_to_new_instrs_'
       /\ \A h \in DOMAIN instr_to_dim_map_' \ DOMAIN instr_to_dim_map_ :
              LET hlo == ghost'.instrs[h]
                  dims == hlo.convolution_dimension_numbers
                  anchor == IF hlo.opcode \in {"reduce", "reduce-window",
                                               "select-and-scatter"}
                            THEN At(hlo.operands, 0)
                            ELSE ghost'.step.parent
              IN /\ h \notin DOMAIN old_to_new_instrs_
                 /\ IF hlo.opcode = "convolution"
                    THEN instr_to_dim_map_'[h] =
                             <<dims.output_batch_dimension,
                               At(dims.output_spatial_dimensions,
                                  get_chosen_spatial_dim(hlo))>>
                    ELSE /\ h = ghost'.step.node
                         /\ anchor \in DOMAIN instr_to_dim_map_
                         /\ instr_to_dim_map_'[h] =
                                instr_to_dim_map_[anchor]]_vars

\* A turn has rewritten an elementwise consumer with two rewritten operands,
\* after readiness checks had turned it down once, and the entry it got is
\* not the default pair.
C24_Witness ==
    /\ ghost.step.kind \in {"direct", "root", "users"}
    /\ ghost.step.node \in DOMAIN instr_to_dim_map_
    /\ ghost.step.node \in ghost.ever_non_propagatable
    /\ ghost.instrs[ghost.step.node].opcode = "add"
    /\ instr_to_dim_map_[ghost.step.node] # <<0, 0>>
    /\ instr_to_dim_map_[ghost.step.node] =
           instr_to_dim_map_[ghost.step.parent]

---------------------------------------------------------------------------
---------------------------------------------------------------------------
\* The halo and the split size of the initial rewrite of conv in the
\* computation I (lines 2033-2060), with the bound the legality check
\* compares the halo with (line 284).
InitialSplit(I, rm, conv) ==
    LET convolution == I[conv]
        dim_numbers == convolution.convolution_dimension_numbers
        c == GetConvolutionDetails(I, convolution, dim_numbers)
        old_batch_size ==
            At(I[At(convolution.operands, 0)].shape,
               dim_numbers.input_batch_dimension)
        num_splits == CDiv(kNewBatchSize, old_batch_size)
        output_spatial_dim ==
            At(dim_numbers.output_spatial_dimensions,
               get_chosen_spatial_dim(convolution))
    IN [halo_size |-> c.halo_size,
        num_splits |-> num_splits,
        output_spatial_dim |-> output_spatial_dim,
        per_split |-> CeilOfRatio(c.spatial_size, num_splits),
        spatial_split_size |->
            SpatialSplitSize(I, rm, conv, c, num_splits, output_spatial_dim)]

\* C26: when Run begins the rewrite of a collected convolution, the halo is
\* at most ceil(spatial_size / num_splits), which is at most the split size
\* the rewrite chooses, so |halo_size - 0| <= spatial_split_size, and the
\* rewrite completes: the convolution gets its entry in old_to_new_instrs_.
C26_InitialHaloFits ==
    [][(/\ pc = "run"
        /\ conv_index \in DOMAIN conv_visitor_list_
        /\ conv_visitor_list_[conv_index] \in convs_to_visit_)
          => LET conv == conv_visitor_list_[conv_index]
                 split == InitialSplit(instrs, removed, conv)
             IN /\ split.halo_size <= split.per_split
                /\ split.per_split <= split.spatial_split_size
                /\ Abs(split.halo_size - 0) <= split.spatial_split_size
                /\ conv \in DOMAIN old_to_new_instrs_'
                /\ pc' # "abort"]_vars

\* A convolution has been rewritten whose halo is positive and as large as
\* the split it was given.
C26_Witness ==
    /\ pc = "propagate"
    /\ iteration_count = 0
    /\ 3 \in DOMAIN old_to_new_instrs_
    /\ LET split == InitialSplit(ghost.instrs, {}, 3)
       IN /\ split.halo_size > 0
          /\ split.halo_size = split.spatial_split_size

---------------------------------------------------------------------------
\* C27: when a turn of the worklist rewrites a reduce-window or a
\* select-and-scatter, the halo computed from the rewritten operand's
\* extent on the space axis, the window's stride and its size is, when
\* positive, at most that extent.
C27_WindowedHaloFits ==
    [][(/\ pc = "propagate"
        /\ ghost'.step.kind \notin {"none", "skip"}
        /\ ghost'.step.node \notin DOMAIN old_to_new_instrs_
        /\ instrs[ghost'.step.node].opcode
               \in {"reduce-window", "select-and-scatter"})
          => LET hlo == instrs[ghost'.step.node]
                 operand0 == At(hlo.operands, 0)
                 first_operand == old_to_new_instrs_[operand0]
                 old_space_dim == instr_to_dim_map_[operand0][2]
                 new_space_dim ==
                     At(instr_to_dim_permute_map_[first_operand],
                        old_space_dim)
                 new_space_size == At(instrs[first_operand].shape,
                                      new_space_dim)
                 halo_size ==
                     RequiredHalo(new_space_size,
                                  At(hlo.window, old_space_dim).stride,
                                  At(hlo.window, old_space_dim).size)
             IN halo_size > 0 => halo_size <= new_space_size]_vars

\* A reduce-window with a positive halo has been rewritten.
C27_Witness ==
    \E n \in DOMAIN old_to_new_instrs_ :
        /\ ghost.instrs[n].opcode = "reduce-window"
        /\ \E d \in DOMAIN ghost.instrs[n].window :
               ghost.instrs[n].window[d].size > ghost.instrs[n].window[d].stride

---------------------------------------------------------------------------
\* C28: when a turn of the worklist rewrites an elementwise consumer (one
\* that SupportedOpForPropagation and CanPropagate have accepted), every
\* operand of the consumer that is not a broadcast has an entry in
\* old_to_new_instrs_, and the turn gives the consumer its own entry.
C28_ElementwiseOperandsRewritten ==
    [][(/\ pc = "propagate"
        /\ ghost'.step.kind \notin {"none", "skip"}
        /\ ghost'.step.node \notin DOMAIN old_to_new_instrs_
        /\ IsTrivialElementwise(instrs[ghost'.step.node]))
          => LET hlo == instrs[ghost'.step.node]
             IN /\ \A i \in DOMAIN hlo.operands :
                       instrs[hlo.operands[i]].opcode # "broadcast"
                           => hlo.operands[i] \in DOMAIN old_to_new_instrs_
                /\ ghost'.step.node \in DOMAIN old_to_new_instrs_']_vars

\* An elementwise consumer of a rewritten value and a propagatable broadcast
\* has been rewritten.
C28_Witness ==
    \E n \in DOMAIN old_to_new_instrs_ :
        /\ ghost.instrs[n].opcode = "add"
        /\ \E i, j \in DOMAIN ghost.instrs[n].operands :
               /\ ghost.instrs[ghost.instrs[n].operands[i]].opcode = "broadcast"
               /\ ghost.instrs[n].operands[j] \in DOMAIN old_to_new_instrs_

---------------------------------------------------------------------------
\* C29: for every original instruction n whose rewritten instruction has an
\* entry in instr_to_dim_permute_map_, the entry is a permutation of the
\* axis indices of n and sends the space axis of n's instr_to_dim_map_ entry
\* to the index right after the one it sends the batch axis to.
C29_SpaceFollowsBatch ==
    \A n \in DOMAIN old_to_new_instrs_ :
        old_to_new_instrs_[n] \in DOMAIN instr_to_dim_permute_map_
            => LET permute_dims ==
                       instr_to_dim_permute_map_[old_to_new_instrs_[n]]
                   rank == Len(ghost.instrs[n].shape)
               IN /\ n \in DOMAIN instr_to_dim_map_
                  /\ Len(permute_dims) = rank
                  /\ Range(permute_dims) = 0..(rank - 1)
                  /\ At(permute_dims, instr_to_dim_map_[n][2]) =
                         At(permute_dims, instr_to_dim_map_[n][1]) + 1

\* A convolution rewritten at first, a consumer that copied its entry and a
\* convolution rewritten by propagation all have entries, and the entries
\* move the axes.
C29_Witness ==
    /\ \E n \in DOMAIN old_to_new_instrs_ :
           /\ ghost.instrs[n].opcode = "negate"
           /\ old_to_new_instrs_[n] \in DOMAIN instr_to_dim_permute_map_
           /\ instr_to_dim_permute_map_[old_to_new_instrs_[n]]
                  # [p \in 1..Len(ghost.instrs[n].shape) |-> p - 1]
    /\ \E n \in DOMAIN old_to_new_instrs_ :
           /\ ghost.instrs[n].opcode = "convolution"
           /\ old_to_new_instrs_[n] \in DOMAIN instr_to_dim_permute_map_
           /\ At(ghost.instrs[n].operands, 0) \in DOMAIN old_to_new_instrs_

---------------------------------------------------------------------------
\* The extent BatchToSpace gives the space axis before it slices
\* (lines 1283-1289), and the extent it slices it to (line 1298).
SliceOfBatchToSpace(I, o2n, dimmap, permmap, old_instr) ==
    LET old_batch_dim == dimmap[old_instr][1]
        old_space_dim == dimmap[old_instr][2]
        old_batch_size == At(I[old_instr].shape, old_batch_dim)
        new_instr == o2n[old_instr]
        permute_dims == permmap[new_instr]
        batch_dim == At(permute_dims, old_batch_dim)
        space_dim == At(permute_dims, old_space_dim)
        batch_size == At(I[new_instr].shape, batch_dim)
    IN [per_split |-> At(I[new_instr].shape, space_dim),
        num_splits |-> CDiv(batch_size, old_batch_size),
        end |-> At(I[old_instr].shape, old_space_dim)]

\* C30: once the initial rewrite has given a convolution its entry, the
\* rewritten convolution's extent on the split space axis times num_splits
\* is at least the original convolution's extent on its chosen output
\* spatial axis, and num_splits is kNewBatchSize / old_batch_size.
C30_SliceWithinBounds ==
    \A conv \in DOMAIN old_to_new_instrs_ :
        (instrs[conv].opcode = "convolution"
         /\ old_to_new_instrs_[conv] \in DOMAIN instr_to_dim_permute_map_)
            => LET slice == SliceOfBatchToSpace(instrs, old_to_new_instrs_,
                                                instr_to_dim_map_,
                                                instr_to_dim_permute_map_, conv)
               IN /\ slice.num_splits =
                         InitialSplit(ghost.instrs, {}, conv).num_splits
                  /\ slice.per_split * slice.num_splits >= slice.end

\* A rewritten convolution has been converted back, and the slice removed
\* rows that the rewrite had added.
C30_Witness ==
    /\ 3 \in DOMAIN batch_to_space_map_
    /\ LET slice == SliceOfBatchToSpace(instrs, old_to_new_instrs_,
                                        instr_to_dim_map_,
                                        instr_to_dim_permute_map_, 3)
       IN /\ slice.per_split * slice.num_splits > slice.end
          /\ slice.per_split > 1
          /\ slice.end > 1

=============================================================================
